---- MODULE Spec2Model ----
(***************************************************************************)
(* Live read-aloud session of ritu-reading: the word-alignment algorithm   *)
(* (app/services/word_alignment.py) and the WebSocket session handler      *)
(* reading_session_ws with its three concurrent tasks                      *)
(* (app/routes/attempts.py), the scoring of an attempt                     *)
(* (app/services/scoring.py) and the progression of the reading level      *)
(* (app/services/progression.py, app/routes/parent.py).                    *)
(*                                                                         *)
(* Words and transcript texts are sequences of one-character strings, so   *)
(* that normalisation, splitting, edit distance and substring tests are    *)
(* computed as the code computes them.  Word indices are 0-based as in the *)
(* code; story_words[i] of the code is story_words[i + 1] here.            *)
(***************************************************************************)
EXTENDS Integers, Sequences, FiniteSets, TLC

(***************************************************************************)
(* Small arithmetic helpers.                                               *)
(***************************************************************************)
Min(a, b) == IF a <= b THEN a ELSE b

(***************************************************************************)
(* Characters.  The alphabet holds lower-case letters, the upper-case       *)
(* letters B, C, D and T, punctuation and the blank, which is what         *)
(* str.split() splits on.                                                  *)
(***************************************************************************)
Punct == {".", ",", "!"}

Blank == " "

\* unicodedata.normalize("NFKD", word).lower() on one character
lower(c) ==
  CASE c = "B" -> "b"
    [] c = "C" -> "c"
    [] c = "D" -> "d"
    [] c = "T" -> "t"
    [] OTHER -> c

\* re.sub(r"[^\w\s]", "", word): punctuation is dropped, letters and blanks stay
RECURSIVE strip_punct(_)
strip_punct(word) ==
  IF word = <<>> THEN <<>>
  ELSE IF Head(word) \in Punct THEN strip_punct(Tail(word))
  ELSE <<Head(word)>> \o strip_punct(Tail(word))

\* str.strip(): leading and trailing blanks removed
RECURSIVE strip(_)
strip(s) ==
  IF s = <<>> THEN <<>>
  ELSE IF Head(s) = Blank THEN strip(Tail(s))
  ELSE IF s[Len(s)] = Blank THEN strip(SubSeq(s, 1, Len(s) - 1))
  ELSE s

normalise(word) == strip(strip_punct([i \in 1..Len(word) |-> lower(word[i])]))

\* str.split(): maximal runs of non-blank characters, in order
RECURSIVE split_from(_, _, _)
split_from(text, cur, acc) ==
  IF text = <<>> THEN (IF cur = <<>> THEN acc ELSE Append(acc, cur))
  ELSE IF Head(text) = Blank
       THEN split_from(Tail(text), <<>>, IF cur = <<>> THEN acc ELSE Append(acc, cur))
       ELSE split_from(Tail(text), Append(cur, Head(text)), acc)

split(text) == split_from(text, <<>>, <<>>)

(***************************************************************************)
(* edit_distance: the two-row dynamic programme of the code.               *)
(***************************************************************************)
Min3(x, y, z) == Min(x, Min(y, z))

\* the inner loop: curr starts as [i + 1] and gets one entry per character of b
RECURSIVE edit_row(_, _, _, _)
edit_row(ca, b, prev, curr) ==
  LET k == Len(curr) IN
  IF k > Len(b) THEN curr
  ELSE LET cost == IF ca = b[k] THEN 0 ELSE 1
       IN edit_row(ca, b, prev,
                   Append(curr, Min3(curr[k] + 1, prev[k + 1] + 1, prev[k] + cost)))

\* the outer loop over the characters of a
RECURSIVE edit_rows(_, _, _, _)
edit_rows(a, b, i, prev) ==
  IF i > Len(a) THEN prev
  ELSE edit_rows(a, b, i + 1, edit_row(a[i], b, prev, <<i>>))

\* mutant of edit_distance: the distance to the empty string is 0
RECURSIVE edit_distance_empty_free(_, _)
edit_distance_empty_free(a, b) ==
  IF Len(a) < Len(b) THEN edit_distance_empty_free(b, a)
  ELSE IF Len(b) = 0 THEN 0
  ELSE edit_rows(a, b, 1, [k \in 1..(Len(b) + 1) |-> k - 1])[Len(b) + 1]

RECURSIVE edit_distance(_, _)
edit_distance(a, b) ==
  IF Len(a) < Len(b) THEN edit_distance(b, a)
  ELSE IF Len(b) = 0 THEN Len(a)
  ELSE edit_rows(a, b, 1, [k \in 1..(Len(b) + 1) |-> k - 1])[Len(b) + 1]

(***************************************************************************)
(* The phonetic alias table and the common short words, as in the source.  *)
(***************************************************************************)
_PHONETIC_ALIASES ==
  {
    <<<<"t","h","r","e","e">>, {<<"f","r","e","e">>, <<"t","h","r","e","e">>, <<"t","r","e","e">>}>>,
    <<<<"t","r","e","e">>, {<<"t","h","r","e","e">>, <<"t","r","e","e">>}>>,
    <<<<"w","e","r","y">>, {<<"v","e","r","y">>}>>,
    <<<<"v","i","n","g">>, {<<"s","w","i","n","g">>, <<"w","i","n","g">>}>>,
    <<<<"w","i","n","g">>, {<<"s","w","i","n","g">>, <<"w","i","n","g">>}>>,
    <<<<"d","e">>, {<<"a">>, <<"t","h","e">>}>>,
    <<<<"d","a">>, {<<"a">>, <<"t","h","e">>}>>,
    <<<<"d">>, {<<"t","h","e">>}>>,
    <<<<"i","m">>, {<<"i","m">>, <<"i","n">>}>>,
    <<<<"a","r","t">>, {<<"a","r","e">>}>>,
    <<<<"m","a","t","t">>, {<<"m","a","x">>}>>,
    <<<<"m","a","c">>, {<<"m","a","x">>}>>,
    <<<<"m","a","c","s">>, {<<"m","a","x">>}>>,
    <<<<"k","e","n">>, {<<"c","a","n">>}>>,
    <<<<"b","a","l","i">>, {<<"p","o","l","l","y">>}>>,
    <<<<"p","a","l","i">>, {<<"p","o","l","l","y">>}>>,
    <<<<"l","o","v","e">>, {<<"l","o","v","e","s">>}>>,
    <<<<"p","r","a","m">>, {<<"f","r","o","m">>}>>,
    <<<<"b","a","t","t","e","r">>, {<<"p","a","r","r","o","t">>}>>,
    <<<<"b","a","r","r","e","t","t">>, {<<"p","a","r","r","o","t">>}>>,
    <<<<"l","e","e">>, {<<"l","e","o">>}>>,
    <<<<"m","e","n","u">>, {<<"m","a","n","y">>}>>,
    <<<<"m","e","a","n">>, {<<"m","a","n","y">>}>>,
    <<<<"h","e">>, {<<"h","e">>, <<"s","h","e">>, <<"t","h","e">>}>>,
    <<<<"s","u","r","e">>, {<<"s","h","e">>}>>,
    <<<<"s","a","l","t">>, {<<"t","a","l","k">>}>>,
    <<<<"d","e","v">>, {<<"t","h","e">>}>>,
    <<<<"a","n","i","m","a","l">>, {<<"a","n","i","m","a","l","s">>}>>
  }
_COMMON_SHORT_WORDS ==
  {
    <<"a">>, <<"i">>, <<"a","m">>, <<"a","n">>, <<"a","s">>,
    <<"a","t">>, <<"b","e">>, <<"b","y">>, <<"d","o">>, <<"g","o">>,
    <<"h","e">>, <<"i","f">>, <<"i","n">>, <<"i","s">>, <<"i","t">>,
    <<"m","e">>, <<"m","y">>, <<"n","o">>, <<"o","f">>, <<"o","n">>,
    <<"o","r">>, <<"s","o">>, <<"t","o">>, <<"u","p">>, <<"u","s">>,
    <<"w","e">>, <<"a","l","l">>, <<"a","n","d">>, <<"a","r","e">>, <<"b","i","g">>,
    <<"b","u","t">>, <<"c","a","n">>, <<"d","i","d">>, <<"f","o","r">>, <<"g","e","t">>,
    <<"g","o","t">>, <<"h","a","d">>, <<"h","a","s">>, <<"h","e","r">>, <<"h","i","m">>,
    <<"h","i","s">>, <<"h","o","w">>, <<"i","t","s">>, <<"l","e","t">>, <<"m","a","y">>,
    <<"n","e","w">>, <<"n","o","t">>, <<"n","o","w">>, <<"o","l","d">>, <<"o","n","e">>,
    <<"o","u","r">>, <<"o","u","t">>, <<"o","w","n">>, <<"p","u","t">>, <<"r","a","n">>,
    <<"r","u","n">>, <<"s","a","y">>, <<"s","e","e">>, <<"s","h","e">>, <<"t","h","e">>,
    <<"t","o","o">>, <<"t","w","o">>, <<"u","s","e">>, <<"w","a","s">>, <<"w","a","y">>,
    <<"w","h","o">>, <<"w","h","y">>, <<"y","o","u">>
  }

\* dict.get: the alias set of a key, the empty set when the key is absent
aliases_of(word) ==
  IF \E p \in _PHONETIC_ALIASES : p[1] = word
  THEN (CHOOSE p \in _PHONETIC_ALIASES : p[1] = word)[2]
  ELSE {}

\* mutant of _phonetic_match: the table is looked up under the token only
_phonetic_match_one_way(recognized, expected) == expected \in aliases_of(recognized)

_phonetic_match(recognized, expected) ==
  \/ expected \in aliases_of(recognized)
  \/ recognized \in aliases_of(expected)

\* a[:n] of Python
prefix(a, n) == SubSeq(a, 1, Min(n, Len(a)))

\* mutant of _starts_same: the first character decides
_starts_same_first_char(a, b) ==
  IF a # <<>> /\ b # <<>> THEN prefix(a, 1) = prefix(b, 1) ELSE FALSE

_starts_same(a, b) ==
  IF Len(a) < 2 \/ Len(b) < 2
  THEN (IF a # <<>> /\ b # <<>> THEN prefix(a, 1) = prefix(b, 1) ELSE FALSE)
  ELSE prefix(a, 2) = prefix(b, 2)

_fuzzy_ok(recognized, expected, threshold) ==
  IF _phonetic_match(recognized, expected) THEN TRUE
  ELSE IF Len(expected) <= 2 THEN recognized = expected
  ELSE IF Len(expected) = 3
       THEN /\ edit_distance(recognized, expected) <= 1
            /\ (IF recognized # <<>> THEN prefix(recognized, 1) = prefix(expected, 1)
                ELSE FALSE)
  ELSE IF Len(expected) <= 6 THEN edit_distance(recognized, expected) <= 2
  ELSE LET dist == edit_distance(recognized, expected) IN
       \/ dist <= threshold
       \/ dist <= threshold + 1 /\ _starts_same(recognized, expected)

\* "s in t" of Python: s occurs as a contiguous run of t
is_in(s, t) == \E i \in 0..(Len(t) - Len(s)) : SubSeq(t, i + 1, i + Len(s)) = s

_contains_word(recognized, expected) ==
  \/ Len(expected) >= 3 /\ is_in(expected, recognized)
  \/ Len(recognized) >= 3 /\ is_in(recognized, expected)

(***************************************************************************)
(* align_transcript_to_story.                                              *)
(***************************************************************************)
\* "recognized": None of a skip event (no raw token is a single "None")
None == <<"None">>

\* default arguments of align_transcript_to_story
lookahead_default == 3

fuzzy_threshold_default == 2

max_advance_default == 8

is_short(word) == word \in _COMMON_SHORT_WORDS \/ Len(word) <= 3

\* mutant of ahead_match: every offset is treated as offset 1 is
ahead_match_same_everywhere(recognized, ahead_norm, offset, fuzzy_threshold) ==
  IF recognized = ahead_norm THEN "correct"
  ELSE IF _fuzzy_ok(recognized, ahead_norm, fuzzy_threshold) THEN "fuzzy"
  ELSE IF _contains_word(recognized, ahead_norm) THEN "fuzzy"
  ELSE "none"

\* what the lookahead loop decides at one offset: the match type, or "none"
ahead_match(recognized, ahead_norm, offset, fuzzy_threshold) ==
  IF offset = 1
  THEN IF recognized = ahead_norm THEN "correct"
       ELSE IF _fuzzy_ok(recognized, ahead_norm, fuzzy_threshold) THEN "fuzzy"
       ELSE IF _contains_word(recognized, ahead_norm) THEN "fuzzy"
       ELSE "none"
  ELSE IF is_short(recognized) /\ is_short(ahead_norm) THEN "none"
       ELSE IF recognized = ahead_norm THEN "correct"
       ELSE "none"

\* for offset in range(1, min(lookahead + 1, len(story_words) - story_idx)):
\* the first offset that matches (the loop breaks there), or -1
skip_target_of(story_words, recognized, story_idx, lookahead, fuzzy_threshold) ==
  LET offsets == 1..(Min(lookahead + 1, Len(story_words) - story_idx) - 1)
      hits == {o \in offsets :
                 ahead_match(recognized, normalise(story_words[story_idx + o + 1]),
                             o, fuzzy_threshold) # "none"}
  IN IF hits = {} THEN -1 ELSE CHOOSE o \in hits : \A p \in hits : o <= p

event(word_index, story_words, recognized, match) ==
  [word_index |-> word_index, expected |-> story_words[word_index + 1],
   recognized |-> recognized, match |-> match]

\* mutant of skip_events_for: every skip event is for the word at the cursor
skip_events_for_cursor_word(story_words, story_idx, skip_target) ==
  [s \in 1..skip_target |-> event(story_idx, story_words, None, "skip")]

\* mutant of skip_events_for: the word just before the matched one gets no event
skip_events_for_but_last(story_words, story_idx, skip_target) ==
  [s \in 1..(skip_target - 1) |-> event(story_idx + s - 1, story_words, None, "skip")]

\* the skip events for story_idx .. story_idx + skip_target - 1
skip_events_for(story_words, story_idx, skip_target) ==
  [s \in 1..skip_target |-> event(story_idx + s - 1, story_words, None, "skip")]

\* mutant of after_mismatch: a mismatch moves on to the next story word
after_mismatch_advancing(story_idx) == story_idx + 1

\* lines 292-299: after a mismatch only trans_idx is incremented
after_mismatch(story_idx) == story_idx

\* mutant of loop_condition: the advance limit is tested with <=
loop_condition_inclusive(n_tokens, n_words, story_idx, trans_idx, words_advanced, max_advance) ==
  /\ trans_idx < n_tokens
  /\ story_idx < n_words
  /\ words_advanced <= max_advance

\* the condition of the while loop (lines 187-191)
loop_condition(n_tokens, n_words, story_idx, trans_idx, words_advanced, max_advance) ==
  /\ trans_idx < n_tokens
  /\ story_idx < n_words
  /\ words_advanced < max_advance

\* the while loop of align_transcript_to_story, one iteration per call
RECURSIVE align_loop(_, _, _, _, _, _, _, _, _)
align_loop(story_words, tokens, lookahead, fuzzy_threshold, max_advance, events, story_idx, trans_idx, words_advanced) ==
  IF ~loop_condition(Len(tokens), Len(story_words), story_idx, trans_idx,
                     words_advanced, max_advance)
  THEN events
  ELSE
    LET raw_token == tokens[trans_idx + 1]
        recognized == normalise(raw_token)
        expected_norm == normalise(story_words[story_idx + 1])
        skip_target == skip_target_of(story_words, recognized, story_idx,
                                      lookahead, fuzzy_threshold)
        again(evs, si, wa) ==
          align_loop(story_words, tokens, lookahead, fuzzy_threshold, max_advance,
                     evs, si, trans_idx + 1, wa)
    IN
    IF recognized = <<>> THEN again(events, story_idx, words_advanced)
    ELSE IF recognized = expected_norm
    THEN again(Append(events, event(story_idx, story_words, raw_token, "correct")),
               story_idx + 1, words_advanced + 1)
    ELSE IF _fuzzy_ok(recognized, expected_norm, fuzzy_threshold)
    THEN again(Append(events, event(story_idx, story_words, raw_token, "fuzzy")),
               story_idx + 1, words_advanced + 1)
    ELSE IF _contains_word(recognized, expected_norm)
    THEN again(Append(events, event(story_idx, story_words, raw_token, "fuzzy")),
               story_idx + 1, words_advanced + 1)
    ELSE IF skip_target > 0
    THEN again(events \o skip_events_for(story_words, story_idx, skip_target)
                 \o <<event(story_idx + skip_target, story_words, raw_token,
                            ahead_match(recognized,
                                        normalise(story_words[story_idx + skip_target + 1]),
                                        skip_target, fuzzy_threshold))>>,
               story_idx + skip_target + 1, words_advanced + skip_target + 1)
    ELSE again(Append(events, event(story_idx, story_words, raw_token, "mismatch")),
               after_mismatch(story_idx), words_advanced)

\* mutant of align_transcript_to_story: story_idx starts at 0, not at current_index
align_from_start(story_words, transcript_text, current_index, lookahead, fuzzy_threshold, max_advance) ==
  align_loop(story_words, split(transcript_text), lookahead, fuzzy_threshold,
             max_advance, <<>>, 0, 0, 0)

align_transcript_to_story(story_words, transcript_text, current_index, lookahead, fuzzy_threshold, max_advance) ==
  align_loop(story_words, split(transcript_text), lookahead, fuzzy_threshold,
             max_advance, <<>>, current_index, 0, 0)

(***************************************************************************)
(* The reading session: reading_session_ws and its three tasks.            *)
(***************************************************************************)
\* Bounds of the model
TicksPerSecond == 2

MaxTime == 2

MaxEvents == 6

\* MAX_WPS = 3.5 words per second, in tenths
MAX_WPS_x10 == 35

\* stuck_count >= 6 forces a one-word advance
STUCK_LIMIT == 6

w_a == <<"a">>

w_big == <<"b","i","g">>

w_dog == <<"d","o","g",".">>

\* story.text.split() of the stories the model loads
Stories == { <<w_a, w_big, w_dog>> }

\* transcripts the provider may deliver ("transcript" of a completed event)
t_blank == <<" ">>

t_punct == <<"!">>

t_miss == <<"z","z","z">>

t_read == <<" ","B","i","g","g"," ","d","o","g","!"," ">>

Transcripts == {t_blank, t_punct, t_miss, t_read}

VARIABLES
  pc,                   \* where reading_session_ws is
  story_words, current_index, all_events, stuck_count,
  now,                  \* _time.monotonic(), in ticks
  _session_start_time, _paused_duration, _pause_start,
  stop_event, paused,
  taskA, taskB, taskC,  \* browser_to_openai, openai_to_browser, periodic_commit
  openai_ws,            \* the provider connection
  openai_last,          \* type of the last message sent to the provider
  connects,             \* calls of websockets.connect
  client_last,          \* the last message sent to the browser
  n_complete,           \* "complete" messages sent to the browser
  save_calls,           \* writes of the event buffer begun by _save_ws_events
  stored,               \* WordEvent rows committed to the database
  last,                 \* the last processed transcript, as the relay computed it
  frame,                \* the last frame browser_to_openai received, and its fate
  msg,                  \* an observer's note: the last provider event and its fate (RelaySpec),
                        \* the run of unconfirmed transcripts (StuckSpec), the pause log (PauseSpec)
  call,                 \* a direct call of a function of word_alignment.py: arguments and result
  scoring,              \* a direct call of compute_score: arguments and result
  level_state,          \* the reader's ReadingLevelState row: its current_level, or None
  attempts,             \* score_total of the reader's scored attempts, newest first
  progression           \* what evaluate_progression returned, when the last step was a call of it

vars == <<pc, story_words, current_index, all_events, stuck_count, now,
          _session_start_time, _paused_duration, _pause_start, stop_event, paused,
          taskA, taskB, taskC, openai_ws, openai_last, connects, client_last,
          n_complete, save_calls, stored, last, frame, msg, call,
          scoring, level_state, attempts, progression>>

\* scoring and progression run after a session, in finish_attempt; no step of
\* the session changes them
service_vars == <<scoring, level_state, attempts, progression>>

\* the session's own data; call belongs to no session and no session step
\* changes it, nor service_vars
session_vars == <<story_words, current_index, all_events, stuck_count, last, call,
                  service_vars>>

timer_vars == <<now, _session_start_time, _paused_duration, _pause_start>>

client_vars == <<client_last, n_complete>>

storage_vars == <<save_calls, stored>>

NoMessage == [type |-> "none"]

NoTranscript == [processed |-> FALSE]

NoCall == [returned |-> FALSE]

NoFrame == [type |-> "none"]

NoEvent == [type |-> "none"]

NoScoring == [returned |-> FALSE]

NoProgression == [returned |-> FALSE]

\* scalar_one_or_none() finding no ReadingLevelState row
NoLevelState == [row |-> FALSE]

\* a ReadingLevelState row
LevelState(level) == [row |-> TRUE, current_level |-> level]

\* the reader's rows before any attempt was finished: the level state that
\* create_child and seed write, and no scored attempt
ReaderInit ==
  /\ level_state = LevelState(1)
  /\ attempts = <<>>
  /\ progression = NoProgression

\* the handler's locals before the provider connection is attempted
SessionInit ==
  /\ pc = "connecting"
  /\ story_words \in Stories
  /\ current_index = 0
  /\ all_events = <<>>
  /\ stuck_count = 0
  /\ now = 1
  /\ _session_start_time = 1
  /\ _paused_duration = 0
  /\ _pause_start = 0
  /\ stop_event = FALSE
  /\ paused = FALSE
  /\ taskA = "idle" /\ taskB = "idle" /\ taskC = "idle"
  /\ openai_ws = "none"
  /\ openai_last = "none"
  /\ connects = 0
  /\ client_last = NoMessage
  /\ n_complete = 0
  /\ save_calls = 0
  /\ stored = <<>>
  /\ last = NoTranscript
  /\ frame = NoFrame
  /\ msg = NoEvent

Init == SessionInit /\ call = NoCall /\ scoring = NoScoring /\ ReaderInit

\* the monotonic clock advances (observed while the session runs)
Tick ==
  /\ pc = "active"
  /\ ~stop_event
  /\ now < _session_start_time + MaxTime
  /\ now' = now + 1
  /\ UNCHANGED <<pc, story_words, current_index, all_events, stuck_count,
                 _session_start_time, _paused_duration, _pause_start, stop_event,
                 paused, taskA, taskB, taskC, openai_ws, openai_last, connects,
                 client_last, n_complete, save_calls, stored, last, frame, msg, call,
                 service_vars>>

(***************************************************************************)
(* Connecting to the provider (lines 370-418).                             *)
(***************************************************************************)
ConnectOK ==
  /\ pc = "connecting"
  /\ pc' = "active"
  /\ openai_ws' = "open"
  /\ openai_last' = "transcription_session.update"
  /\ connects' = connects + 1
  /\ taskA' = "running" /\ taskB' = "running" /\ taskC' = "running"
  /\ UNCHANGED <<frame, msg, session_vars, timer_vars, stop_event, paused, client_vars,
                 storage_vars>>

\* mutant of ConnectFail: the return after the error message is missing, so the
\* handler goes on to start the three tasks
ConnectFail_no_return(configuring) ==
  /\ pc = "connecting"
  /\ pc' = "active"
  /\ connects' = connects + 1
  /\ openai_ws' = IF configuring THEN "open" ELSE openai_ws
  /\ client_last' = [type |-> "error", message |-> "connect"]
  /\ taskA' = "running" /\ taskB' = "running" /\ taskC' = "running"
  /\ UNCHANGED <<frame, msg, session_vars, timer_vars, stop_event, paused, openai_last,
                 n_complete, storage_vars>>

\* the except clause of lines 410-418: websockets.connect raised (configuring
\* is FALSE, openai_ws is still None) or the send of the session configuration
\* raised (configuring is TRUE: the connection is open and is not closed);
\* one error message goes to the browser and the handler returns
ConnectFail(configuring) ==
  /\ pc = "connecting"
  /\ pc' = "done"
  /\ connects' = connects + 1
  /\ openai_ws' = IF configuring THEN "open" ELSE openai_ws
  /\ client_last' = [type |-> "error", message |-> "connect"]
  /\ UNCHANGED <<frame, msg, session_vars, timer_vars, stop_event, paused, taskA, taskB, taskC,
                 openai_last, n_complete, storage_vars>>

(***************************************************************************)
(* Task A: browser_to_openai (lines 428-530).  Each action is one turn of  *)
(* the loop: the frame received and everything done with it.               *)
(***************************************************************************)
\* openai_ws.send(msg): the message goes out when the connection is open;
\* on a closed connection send raises
send_ok == openai_ws = "open"

\* the 1.0 s receive timeout passes and the loop condition sees stop_event
A_ExitOnStop ==
  /\ taskA = "running"
  /\ stop_event
  /\ taskA' = "done"
  /\ UNCHANGED <<frame, msg, pc, session_vars, timer_vars, stop_event, paused, taskB, taskC,
                 openai_ws, openai_last, connects, client_vars, storage_vars>>

\* mutant of A_Audio: the paused flag is not looked at
A_Audio_through_pause ==
  /\ taskA = "running"
  /\ frame' = [type |-> "audio", forwarded |-> send_ok]
  /\ IF send_ok
     THEN /\ openai_last' = "input_audio_buffer.append"
          /\ UNCHANGED <<taskA, stop_event>>
     ELSE /\ stop_event' = TRUE
          /\ taskA' = "done"
          /\ UNCHANGED openai_last
  /\ UNCHANGED <<msg, pc, session_vars, timer_vars, paused, taskB, taskC, openai_ws,
                 connects, client_vars, storage_vars>>

\* a non-empty binary frame: dropped while paused, else forwarded as
\* input_audio_buffer.append; a failing send ends the task through the
\* generic except clause
A_Audio ==
  /\ taskA = "running"
  /\ frame' = [type |-> "audio", forwarded |-> ~paused /\ send_ok]
  /\ IF paused
     THEN UNCHANGED <<taskA, stop_event, openai_last>>
     ELSE IF send_ok
          THEN /\ openai_last' = "input_audio_buffer.append"
               /\ UNCHANGED <<taskA, stop_event>>
          ELSE /\ stop_event' = TRUE
               /\ taskA' = "done"
               /\ UNCHANGED openai_last
  /\ UNCHANGED <<msg, pc, session_vars, timer_vars, paused, taskB, taskC, openai_ws,
                 connects, client_vars, storage_vars>>

\* {"type": "pause"}: the send has its own try/except
A_Pause ==
  /\ taskA = "running"
  /\ frame' = [type |-> "pause"]
  /\ paused' = TRUE
  /\ _pause_start' = now
  /\ openai_last' = IF send_ok THEN "input_audio_buffer.clear" ELSE openai_last
  /\ UNCHANGED <<pc, session_vars, now, _session_start_time, _paused_duration,
                 stop_event, taskA, taskB, taskC, openai_ws, connects, client_vars,
                 storage_vars>>

\* mutant of A_Resume: the pause is assigned to the total, not added to it
A_Resume_overwrite ==
  /\ taskA = "running"
  /\ frame' = [type |-> "resume"]
  /\ paused' = FALSE
  /\ IF _pause_start > 0
     THEN /\ _paused_duration' = now - _pause_start
          /\ _pause_start' = 0
     ELSE UNCHANGED <<_paused_duration, _pause_start>>
  /\ UNCHANGED <<pc, session_vars, now, _session_start_time, stop_event, taskA,
                 taskB, taskC, openai_ws, openai_last, connects, client_vars,
                 storage_vars>>

\* {"type": "resume"}
A_Resume ==
  /\ taskA = "running"
  /\ frame' = [type |-> "resume"]
  /\ paused' = FALSE
  /\ IF _pause_start > 0
     THEN /\ _paused_duration' = _paused_duration + (now - _pause_start)
          /\ _pause_start' = 0
     ELSE UNCHANGED <<_paused_duration, _pause_start>>
  /\ UNCHANGED <<pc, session_vars, now, _session_start_time, stop_event, taskA,
                 taskB, taskC, openai_ws, openai_last, connects, client_vars,
                 storage_vars>>

\* mutant of A_Stop: the final commit is left out
A_Stop_no_commit ==
  /\ taskA = "running"
  /\ frame' = [type |-> "stop"]
  /\ taskA' = "stopping"
  /\ UNCHANGED <<msg, pc, session_vars, timer_vars, stop_event, paused, taskB, taskC,
                 openai_ws, openai_last, connects, client_vars, storage_vars>>

\* {"type": "stop"}, lines 507-512: the final commit is sent (errors swallowed);
\* the task is suspended in the send, the stop signal is not yet set
A_Stop ==
  /\ taskA = "running"
  /\ frame' = [type |-> "stop"]
  /\ openai_last' = IF send_ok THEN "input_audio_buffer.commit" ELSE openai_last
  /\ taskA' = "stopping"
  /\ UNCHANGED <<msg, pc, session_vars, timer_vars, stop_event, paused, taskB, taskC,
                 openai_ws, connects, client_vars, storage_vars>>

\* lines 518-519: stop_event.set() and return
A_StopSignal ==
  /\ taskA = "stopping"
  /\ stop_event' = TRUE
  /\ taskA' = "done"
  /\ UNCHANGED <<frame, msg, pc, session_vars, timer_vars, paused, taskB, taskC, openai_ws,
                 openai_last, connects, client_vars, storage_vars>>

\* a websocket.disconnect message, WebSocketDisconnect or any other exception
\* of the receive or of the JSON decoding
A_Disconnect ==
  /\ taskA = "running"
  /\ frame' = [type |-> "disconnect"]
  /\ stop_event' = TRUE
  /\ taskA' = "done"
  /\ UNCHANGED <<msg, pc, session_vars, timer_vars, paused, taskB, taskC, openai_ws,
                 openai_last, connects, client_vars, storage_vars>>

(***************************************************************************)
(* Task C: periodic_commit (lines 532-563), one turn of the loop after the *)
(* sleep of COMMIT_INTERVAL_S.                                             *)
(***************************************************************************)
C_Commit ==
  /\ taskC = "running"
  /\ IF stop_event
     THEN /\ taskC' = "done"
          /\ UNCHANGED <<stop_event, openai_last>>
     ELSE IF paused
          THEN UNCHANGED <<taskC, stop_event, openai_last>>
          ELSE IF send_ok
               THEN /\ openai_last' = "input_audio_buffer.commit"
                    /\ UNCHANGED <<taskC, stop_event>>
               ELSE /\ stop_event' = TRUE
                    /\ taskC' = "done"
                    /\ UNCHANGED openai_last
  /\ UNCHANGED <<frame, msg, pc, session_vars, timer_vars, paused, taskA, taskB, openai_ws,
                 connects, client_vars, storage_vars>>

(***************************************************************************)
(* Task B: openai_to_browser (lines 565-716).                              *)
(***************************************************************************)
is_spoken(e) == e.match \in {"correct", "fuzzy"}

is_skip(e) == e.match = "skip"

is_mismatch(e) == e.match = "mismatch"

spoken_events(events) == SelectSeq(events, is_spoken)

skip_events(events) == SelectSeq(events, is_skip)

mismatch_events(events) == SelectSeq(events, is_mismatch)

\* mutant of new_index_of: a confirmed word leaves the stuck counter as it is
new_index_of_no_reset(events, cur, stuck) ==
  LET spoken == spoken_events(events) IN
  IF spoken # <<>>
  THEN [new_index |-> spoken[Len(spoken)].word_index + 1, stuck_count |-> stuck,
        forced |-> FALSE]
  ELSE IF skip_events(events) # <<>>
  THEN [new_index |-> cur, stuck_count |-> stuck, forced |-> FALSE]
  ELSE IF stuck + 1 >= STUCK_LIMIT /\ mismatch_events(events) # <<>>
  THEN [new_index |-> cur + 1, stuck_count |-> 0, forced |-> TRUE]
  ELSE [new_index |-> cur, stuck_count |-> stuck + 1, forced |-> FALSE]

\* lines 619-638: the cursor the relay wants before the rate limiter, and the
\* stuck counter it leaves
new_index_of(events, cur, stuck) ==
  LET spoken == spoken_events(events) IN
  IF spoken # <<>>
  THEN [new_index |-> spoken[Len(spoken)].word_index + 1, stuck_count |-> 0,
        forced |-> FALSE]
  ELSE IF skip_events(events) # <<>>
  THEN [new_index |-> cur, stuck_count |-> stuck, forced |-> FALSE]
  ELSE IF stuck + 1 >= STUCK_LIMIT /\ mismatch_events(events) # <<>>
  THEN [new_index |-> cur + 1, stuck_count |-> 0, forced |-> TRUE]
  ELSE [new_index |-> cur, stuck_count |-> stuck + 1, forced |-> FALSE]

\* int(x) of a quotient n / d with d > 0: truncation towards zero
int_div(n, d) == IF n >= 0 THEN n \div d ELSE -((-n) \div d)

\* mutant of elapsed_of: the operands of the first subtraction swapped
elapsed_of_swapped(t, start, paused_duration) == start - t - paused_duration

\* mutant of elapsed_of: the paused time is not subtracted
elapsed_of_gross(t, start, paused_duration) == t - start

\* line 643, in ticks
elapsed_of(t, start, paused_duration) == t - start - paused_duration

\* line 644: int(elapsed * MAX_WPS) + 1 at a rate of wps_x10 / 10 words a second
max_allowed_of(elapsed, wps_x10) ==
  int_div(elapsed * wps_x10, 10 * TicksPerSecond) + 1

\* mutant of rate_limited: the cursor is set to the cap whatever was wanted
rate_limited_to_cap(new_index, max_allowed) == max_allowed

\* lines 645-652
rate_limited(new_index, max_allowed) ==
  IF new_index > max_allowed THEN max_allowed ELSE new_index

\* the "problems" of an alignment message
problems_of(events) == SelectSeq(events, LAMBDA e : e.match \in {"mismatch", "skip"})

\* mutant of story_finished: the end is seen one word early
story_finished_early(cursor, words) == cursor >= Len(words) - 1

\* line 683: current_index >= len(story_words)
story_finished(cursor, words) == cursor >= Len(words)

\* mutant of extend: the buffer is assigned, not extended
extend_assign(buffer, events) == events

\* line 655: all_events.extend(events)
extend(buffer, events) == buffer \o events

\* mutant of skipped: an alignment without events is processed like any other
skipped_only_empty_text(transcript_text, events) == transcript_text = <<>>

\* lines 591-592 and 602-604: the two "continue" of the transcript handler
skipped(transcript_text, events) == transcript_text = <<>> \/ events = <<>>

\* a message arrives while stop_event is set: the loop breaks at once
B_BreakOnStop ==
  /\ taskB = "running"
  /\ openai_ws = "open"
  /\ stop_event
  /\ taskB' = "done"
  /\ UNCHANGED <<frame, msg, pc, session_vars, timer_vars, stop_event, paused, taskA, taskC,
                 openai_ws, openai_last, connects, client_vars, storage_vars>>

\* a conversation.item.input_audio_transcription.completed event with the
\* given transcript, up to and including the send of the alignment message;
\* delivered says whether websocket.send_json succeeds. With the cursor at the
\* end of the story the task goes on to send "complete" (B_Complete).  What
\* msg records of the event is said where the action is used.
B_TranscriptWithin(text, delivered, max_events) ==
  /\ taskB = "running"
  /\ openai_ws = "open"
  /\ ~stop_event
  /\ LET transcript_text == strip(text)
         events == align_transcript_to_story(story_words, transcript_text,
                     current_index, lookahead_default, fuzzy_threshold_default,
                     max_advance_default)
         adv == new_index_of(events, current_index, stuck_count)
         elapsed == elapsed_of(now, _session_start_time, _paused_duration)
         max_allowed == max_allowed_of(elapsed, MAX_WPS_x10)
         new_index == rate_limited(adv.new_index, max_allowed)
         cursor == Min(new_index, Len(story_words))
     IN
     IF skipped(transcript_text, events)
     THEN UNCHANGED <<session_vars, stop_event, taskB, client_vars>>
     ELSE
       /\ Len(all_events) + Len(events) <= max_events
       /\ current_index' = cursor
       /\ stuck_count' = adv.stuck_count
       /\ all_events' = extend(all_events, events)
       /\ last' = [processed |-> TRUE, prev_index |-> current_index,
                   wanted |-> adv.new_index, forced |-> adv.forced,
                   sent |-> delivered]
       /\ UNCHANGED <<story_words, call, service_vars>>
       /\ IF ~delivered
          THEN /\ stop_event' = TRUE
               /\ taskB' = "done"
               /\ UNCHANGED <<client_last, n_complete>>
          ELSE /\ client_last' = [type |-> "alignment", events |-> events,
                                  current_index |-> cursor,
                                  total_words |-> Len(story_words),
                                  problems |-> problems_of(events)]
               /\ taskB' = IF story_finished(cursor, story_words)
                           THEN "completing" ELSE taskB
               /\ UNCHANGED <<n_complete, stop_event>>
  /\ UNCHANGED <<frame, pc, timer_vars, paused, taskA, taskC, openai_ws, openai_last,
                 connects, storage_vars>>

\* the same with the event buffer of the model bounded by MaxEvents
B_Transcript(text, delivered) == B_TranscriptWithin(text, delivered, MaxEvents)

\* lines 683-692: the "complete" message (a failing send is ignored), then the
\* stop signal, then the loop is left
B_Complete(delivered) ==
  /\ taskB = "completing"
  /\ IF delivered
     THEN /\ client_last' = [type |-> "complete"]
          /\ n_complete' = n_complete + 1
     ELSE UNCHANGED client_vars
  /\ stop_event' = TRUE
  /\ taskB' = "done"
  /\ UNCHANGED <<frame, msg, pc, session_vars, timer_vars, paused, taskA, taskC, openai_ws,
                 openai_last, connects, storage_vars>>

\* mutant of B_Error: the message of the error is not looked at
B_Error_all_reported(benign, delivered) ==
  /\ taskB = "running"
  /\ openai_ws = "open"
  /\ ~stop_event
  /\ IF delivered
     THEN /\ client_last' = [type |-> "error", message |-> "keep reading"]
          /\ UNCHANGED <<n_complete, stop_event, taskB>>
     ELSE /\ stop_event' = TRUE
          /\ taskB' = "done"
          /\ UNCHANGED client_vars
  /\ UNCHANGED <<frame, pc, session_vars, timer_vars, paused, taskA, taskC, openai_ws,
                 openai_last, connects, storage_vars>>

\* an "error" event of the provider (lines 694-709): "buffer too small" is
\* ignored, any other is reported to the browser as a generic error; a failing
\* send stops the session
B_Error(benign, delivered) ==
  /\ taskB = "running"
  /\ openai_ws = "open"
  /\ ~stop_event
  /\ IF benign
     THEN UNCHANGED <<client_vars, stop_event, taskB>>
     ELSE IF delivered
          THEN /\ client_last' = [type |-> "error", message |-> "keep reading"]
               /\ UNCHANGED <<n_complete, stop_event, taskB>>
          ELSE /\ stop_event' = TRUE
               /\ taskB' = "done"
               /\ UNCHANGED client_vars
  /\ UNCHANGED <<frame, pc, session_vars, timer_vars, paused, taskA, taskC, openai_ws,
                 openai_last, connects, storage_vars>>

\* the provider stream ends: websockets.exceptions.ConnectionClosed sets the
\* stop signal and ends the task; "lost" is a stream that ended while the
\* session was not being stopped
B_Closed ==
  /\ taskB = "running"
  /\ openai_ws = "open"
  /\ openai_ws' = IF stop_event THEN "closed_by_peer" ELSE "lost"
  /\ stop_event' = TRUE
  /\ taskB' = "done"
  /\ UNCHANGED <<frame, msg, pc, session_vars, timer_vars, paused, taskA, taskC, openai_last,
                 connects, client_vars, storage_vars>>

(***************************************************************************)
(* After asyncio.gather: the finally block (lines 727-742) and             *)
(* _save_ws_events (lines 745-761).  committed says whether the database   *)
(* write succeeds; when it fails the exception leaves the handler.         *)
(***************************************************************************)
\* mutant of Finally: the buffer is written only when the story was completed
Finally_on_complete(committed) ==
  /\ pc = "active"
  /\ taskA = "done" /\ taskB = "done" /\ taskC = "done"
  /\ openai_ws' = IF openai_ws = "open" THEN "closed" ELSE openai_ws
  /\ IF all_events = <<>> \/ current_index < Len(story_words)
     THEN /\ pc' = "done"
          /\ UNCHANGED storage_vars
     ELSE /\ save_calls' = save_calls + 1
          /\ IF committed
             THEN /\ stored' = all_events
                  /\ pc' = "done"
             ELSE /\ pc' = "raised"
                  /\ UNCHANGED stored
  /\ UNCHANGED <<frame, msg, session_vars, timer_vars, stop_event, paused, taskA, taskB, taskC,
                 openai_last, connects, client_vars>>

Finally(committed) ==
  /\ pc = "active"
  /\ taskA = "done" /\ taskB = "done" /\ taskC = "done"
  /\ openai_ws' = IF openai_ws = "open" THEN "closed" ELSE openai_ws
  /\ IF all_events = <<>>
     THEN /\ pc' = "done"
          /\ UNCHANGED storage_vars
     ELSE /\ save_calls' = save_calls + 1
          /\ IF committed
             THEN /\ stored' = all_events
                  /\ pc' = "done"
             ELSE /\ pc' = "raised"
                  /\ UNCHANGED stored
  /\ UNCHANGED <<frame, msg, session_vars, timer_vars, stop_event, paused, taskA, taskB, taskC,
                 openai_last, connects, client_vars>>

Next ==
  \/ Tick
  \/ ConnectOK
  \/ \E configuring \in BOOLEAN : ConnectFail(configuring)
  \/ A_ExitOnStop
  \/ A_Audio
  \/ A_Pause /\ UNCHANGED msg
  \/ A_Resume /\ UNCHANGED msg
  \/ A_Stop
  \/ A_StopSignal
  \/ A_Disconnect
  \/ C_Commit
  \/ B_BreakOnStop
  \/ \E text \in Transcripts, delivered \in BOOLEAN :
       B_Transcript(text, delivered) /\ UNCHANGED msg
  \/ \E delivered \in BOOLEAN : B_Complete(delivered)
  \/ \E benign \in BOOLEAN, delivered \in BOOLEAN :
       B_Error(benign, delivered) /\ UNCHANGED msg
  \/ B_Closed
  \/ \E committed \in BOOLEAN : Finally(committed)

Spec == Init /\ [][Next]_vars

\* What the scheduling of the code guarantees: the receive of task A times out
\* after 1.0 s, a send to the provider or to the browser returns or raises, the
\* sleep of task C ends, a connection attempt ends, and the handler goes on
\* after gather.  Nothing makes the browser or the provider
\* send a further message.
Fairness ==
  /\ WF_vars(ConnectOK \/ \E configuring \in BOOLEAN : ConnectFail(configuring))
  /\ WF_vars(A_ExitOnStop)
  /\ WF_vars(A_StopSignal)
  /\ WF_vars(\E delivered \in BOOLEAN : B_Complete(delivered))
  /\ WF_vars(C_Commit)
  /\ WF_vars(\E committed \in BOOLEAN : Finally(committed))

FairSpec == Spec /\ Fairness

(***************************************************************************)
(* The outbound relay observed: the same session with a browser that only  *)
(* listens (it sends no audio, pause or resume; it may stop or go away),   *)
(* msg recording each provider event openai_to_browser handles.            *)
(***************************************************************************)
\* what the transcript handler does with a transcript (lines 584-604)
fate_of(words, text, cur) ==
  LET transcript_text == strip(text)
      events == align_transcript_to_story(words, transcript_text, cur,
                  lookahead_default, fuzzy_threshold_default, max_advance_default)
  IN IF transcript_text = <<>> THEN "empty"
     ELSE IF events = <<>> THEN "no_events" ELSE "aligned"

RelayNext ==
  \/ Tick
  \/ ConnectOK
  \/ \E configuring \in BOOLEAN : ConnectFail(configuring)
  \/ A_ExitOnStop
  \/ A_Stop
  \/ A_StopSignal
  \/ A_Disconnect
  \/ C_Commit
  \/ B_BreakOnStop
  \/ \E text \in Transcripts, delivered \in BOOLEAN :
       /\ B_Transcript(text, delivered)
       /\ msg' = [type |-> "transcript",
                  fate |-> fate_of(story_words, text, current_index)]
  \/ \E delivered \in BOOLEAN : B_Complete(delivered)
  \/ \E benign \in BOOLEAN, delivered \in BOOLEAN :
       /\ B_Error(benign, delivered)
       /\ msg' = [type |-> "error", benign |-> benign, sent |-> ~benign /\ delivered]
  \/ B_Closed
  \/ \E committed \in BOOLEAN : Finally(committed)

RelaySpec == Init /\ [][RelayNext]_vars

(***************************************************************************)
(* Direct calls of align_transcript_to_story: a call is drawn with its     *)
(* arguments, AlignCall runs the function and records the returned events. *)
(***************************************************************************)
\* Bounds of the calls: lookahead in 0..MaxLookahead, max_advance in
\* 1..SmallAdvance and the default
MaxLookahead == 3

SmallAdvance == 2

w_the == <<"t","h","e">>

w_The == <<"T","h","e">>

w_cat == <<"c","a","t">>

w_sat == <<"s","a","t">>

w_dog_bare == <<"d","o","g">>

w_ran == <<"r","a","n">>

w_to == <<"t","o">>

w_it == <<"i","t">>

w_is == <<"i","s">>

w_so == <<"s","o">>

w_he == <<"h","e">>

w_lion == <<"l","i","o","n">>

w_parrot == <<"p","a","r","r","o","t",",">>

w_bang == <<"!">>

s_cat == <<w_the, w_cat, w_sat>>

s_dog == <<w_a, w_big, w_dog_bare, w_ran>>

s_lion == <<w_a, w_big, w_lion, w_ran>>

s_alias == <<w_The, w_parrot, w_he, w_a>>

s_long == <<w_a, w_big, w_dog, w_ran, w_to, w_the, w_cat, w_it, w_is, w_so, w_lion>>

s_punct == <<w_big, w_bang, w_cat, w_bang>>

AlignStories == {s_cat, s_dog, s_lion, s_alias, s_long, s_punct}

\* " ".join(words)
RECURSIVE join(_)
join(words) ==
  IF words = <<>> THEN <<>>
  ELSE IF Len(words) = 1 THEN words[1]
  ELSE words[1] \o <<Blank>> \o join(Tail(words))

\* the transcript that repeats story_words[current_index:] token for token
reproduce(words, cur) == join(SubSeq(words, cur + 1, Len(words)))

t_dog_ran == join(<<w_dog_bare, w_ran>>)

t_lion_ran == join(<<w_lion, w_ran>>)

t_de == <<"d","e">>

t_d == <<"D">>

t_batter == <<"b","a","t","t","e","r">>

t_the_he == join(<<w_The, w_he>>)

t_jump == join(<<w_a, w_big, w_dog_bare, w_ran, w_to, w_the, w_cat, w_lion>>)

t_miss_the == join(<<t_miss, w_the>>)

AlignTranscripts ==
  {t_dog_ran, t_lion_ran, t_de, t_d, t_batter, t_the_he, t_jump, t_miss, t_punct,
   t_miss_the}

\* the calls on one target from one cursor
CallsOf(s, c) ==
  { [story_words |-> s, transcript_text |-> t, current_index |-> c,
     lookahead |-> l, fuzzy_threshold |-> fuzzy_threshold_default,
     max_advance |-> m, returned |-> FALSE, events |-> <<>>] :
      t \in AlignTranscripts \cup {reproduce(s, c)},
      l \in 0..MaxLookahead,
      m \in (1..SmallAdvance) \cup {max_advance_default} }

AlignCalls == UNION { UNION { CallsOf(s, c) : c \in 0..Len(s) } : s \in AlignStories }

AlignInit == SessionInit /\ call \in AlignCalls /\ scoring = NoScoring /\ ReaderInit

AlignCall ==
  /\ ~call.returned
  /\ call' = [call EXCEPT
                !.returned = TRUE,
                !.events = align_transcript_to_story(call.story_words,
                             call.transcript_text, call.current_index,
                             call.lookahead, call.fuzzy_threshold, call.max_advance)]
  /\ UNCHANGED <<frame, msg, pc, story_words, current_index, all_events, stuck_count, last,
                 timer_vars, stop_event, paused, taskA, taskB, taskC, openai_ws,
                 openai_last, connects, client_vars, storage_vars, service_vars>>

AlignNext == AlignCall

AlignSpec == AlignInit /\ [][AlignNext]_vars

(***************************************************************************)
(* compute_score (app/services/scoring.py).  Scores are floats rounded to  *)
(* one decimal in the code; here they are integers counting tenths         *)
(* (total = 334 is 33.4), computed exactly.  For stories of fewer than 20  *)
(* words the float computation of the code has the same results.           *)
(***************************************************************************)
MaxWords == 6

\* round(n / d) for n >= 0 and d > 0, a tie going to the even neighbour as
\* Python's round does
round_half_even(n, d) ==
  LET q == n \div d
      r == n % d
  IN IF 2 * r > d \/ (2 * r = d /\ q % 2 = 1) THEN q + 1 ELSE q

\* lines 44-48
max_word_index_of(word_events) ==
  LET wi(e) == IF "word_index" \in DOMAIN e THEN e.word_index ELSE 0
      RECURSIVE scan(_, _)
      scan(i, best) ==
        IF i > Len(word_events) THEN best
        ELSE scan(i + 1, IF wi(word_events[i]) > best THEN wi(word_events[i]) ELSE best)
  IN scan(1, 0)

\* line 51
words_reached_of(word_events, total_words) ==
  IF word_events # <<>>
  THEN Min(max_word_index_of(word_events) + 1, total_words)
  ELSE 0

\* mutant of effort_of: the bonus for a finished story is added to the partial credit
effort_of_stacked(words_reached, total_words) ==
  IF 10 * words_reached >= 9 * total_words
  THEN 200 + round_half_even(200 * words_reached, total_words)
  ELSE round_half_even(200 * words_reached, total_words)

\* lines 61-68, completion_ratio being words_reached / total_words
effort_of(words_reached, total_words) ==
  IF 10 * words_reached >= 9 * total_words THEN 200
  ELSE IF 2 * words_reached >= total_words
  THEN round_half_even(250 * words_reached - 25 * total_words, total_words)
  ELSE IF 10 * words_reached >= total_words
  THEN round_half_even(200 * words_reached, total_words)
  ELSE round_half_even(200 * words_reached, total_words)

\* lines 96-105
_pick_encouragement(words_reached, total_words) ==
  IF 100 * words_reached >= 95 * total_words THEN "superstar"
  ELSE IF 100 * words_reached >= 75 * total_words THEN "almost finished"
  ELSE IF 100 * words_reached >= 50 * total_words THEN "more than halfway"
  ELSE IF 100 * words_reached >= 25 * total_words THEN "good start"
  ELSE "nice try"

\* lines 108-124
_empty_score ==
  [total |-> 0, completion |-> 0, effort |-> 0, accuracy |-> 0, fluency |-> 0,
   independence |-> 0, wpm |-> 0, words_reached |-> 0,
   summary |-> [encouragement |-> "together", completion_pct |-> 0,
                words_reached |-> 0, total_words |-> 0]]

\* what a call leaves that ends in an exception
Raised(exception) == [raised |-> exception]

\* lines 42-93
score_of(word_events, total_words, duration_seconds, interventions, skips) ==
  LET words_reached == words_reached_of(word_events, total_words)
      completion_score == round_half_even(800 * words_reached, total_words)
      effort_score == effort_of(words_reached, total_words)
      total_score == Min(completion_score + effort_score, 1000)
      wpm == IF duration_seconds > 0
             THEN round_half_even(600 * words_reached, duration_seconds)
             ELSE 0
  IN [total |-> total_score, completion |-> completion_score,
      effort |-> effort_score, accuracy |-> completion_score,
      fluency |-> effort_score, independence |-> 0, wpm |-> wpm,
      words_reached |-> words_reached,
      summary |-> [encouragement |-> _pick_encouragement(words_reached, total_words),
                   completion_pct |-> round_half_even(1000 * words_reached, total_words),
                   words_reached |-> words_reached,
                   total_words |-> total_words]]

\* mutant of compute_score: the test for an empty story is missing
compute_score_unguarded(word_events, total_words, duration_seconds, interventions, skips) ==
  IF total_words = 0
  THEN Raised("ZeroDivisionError")
  ELSE score_of(word_events, total_words, duration_seconds, interventions, skips)

\* lines 13-93
compute_score(word_events, total_words, duration_seconds, interventions, skips) ==
  IF total_words = 0
  THEN _empty_score
  ELSE score_of(word_events, total_words, duration_seconds, interventions, skips)

\* word events as finish_attempt and the session hand them over: with a
\* word_index, or without one (finish_attempt passes event_type and the words only)
ScoreEvents ==
  {[event_type |-> "correct"]} \cup
  {[event_type |-> "correct", word_index |-> i] : i \in 0..(MaxWords + 1)}

ScoreEventLists ==
  {<<>>} \cup {<<e>> : e \in ScoreEvents} \cup {<<e, f>> : e, f \in ScoreEvents}

Durations == {0, 7, 60}

ScoreCalls ==
  [word_events : ScoreEventLists, total_words : 0..MaxWords,
   duration_seconds : Durations, interventions : 0..1, skips : 0..1,
   returned : {FALSE}]

ScoreInit == SessionInit /\ call = NoCall /\ scoring \in ScoreCalls /\ ReaderInit

ScoreCall ==
  /\ ~scoring.returned
  /\ scoring' = [returned |-> TRUE,
                 word_events |-> scoring.word_events,
                 total_words |-> scoring.total_words,
                 duration_seconds |-> scoring.duration_seconds,
                 interventions |-> scoring.interventions,
                 skips |-> scoring.skips,
                 score |-> compute_score(scoring.word_events, scoring.total_words,
                             scoring.duration_seconds, scoring.interventions,
                             scoring.skips)]
  /\ UNCHANGED <<frame, msg, pc, story_words, current_index, all_events, stuck_count, last,
                 timer_vars, stop_event, paused, taskA, taskB, taskC, openai_ws,
                 openai_last, connects, client_vars, storage_vars, call,
                 level_state, attempts, progression>>

ScoreNext == ScoreCall

ScoreSpec == ScoreInit /\ [][ScoreNext]_vars

(***************************************************************************)
(* evaluate_progression (app/services/progression.py) and the other        *)
(* writers of the reader's rows: finish_attempt, which scores an attempt,  *)
(* and override_level (app/routes/parent.py).  Of the ReadingLevelState    *)
(* row the model keeps current_level.  score_total is in whole points; the *)
(* weighted average is compared with the thresholds exactly.               *)
(***************************************************************************)
\* the model keeps the newest MaxStored scored attempts of the reader
MaxStored == 11

\* settings.progression_window
progression_window == 10

\* settings.promote_threshold
promote_threshold == 80

\* settings.demote_threshold
demote_threshold == 45

\* the least number of scored attempts a decision needs (line 47)
min_scored_attempts == 3

\* the keys of settings.level_word_ranges
level_word_ranges == {1, 2, 3, 4, 5, 6}

\* line 68: max(settings.level_word_ranges.keys())
max_level == CHOOSE m \in level_word_ranges : \A k \in level_word_ranges : k <= m

\* lines 38-45: the newest progression_window scored attempts
window_of(scored) == SubSeq(scored, 1, Min(Len(scored), progression_window))

\* mutant of weight_of: the oldest attempt of the window weighs most
weight_of_oldest_heaviest(n, i) == i + 1

\* line 58: the weight of the attempt at position i (from 0) among n
weight_of(n, i) == n - i

\* lines 55-60
weighted_sum_of(window) ==
  LET n == Len(window)
      RECURSIVE sum(_)
      sum(i) == IF i >= n THEN 0 ELSE window[i + 1] * weight_of(n, i) + sum(i + 1)
  IN sum(0)

total_weight_of(window) ==
  LET n == Len(window)
      RECURSIVE sum(_)
      sum(i) == IF i >= n THEN 0 ELSE weight_of(n, i) + sum(i + 1)
  IN sum(0)

\* mutant of too_few: two scored attempts are taken as enough
too_few_below_two(window) == Len(window) < 2

\* line 47
too_few(window) == Len(window) < min_scored_attempts

\* lines 27-98: what is returned, and the row as the call leaves it
evaluate_progression(row, scored) ==
  IF ~row.row
  THEN [returned |-> TRUE, action |-> "hold", new_level |-> 1,
        reason |-> "no level state", level_state |-> row]
  ELSE
    LET current_level == row.current_level
        window == window_of(scored)
        weighted_sum == weighted_sum_of(window)
        total_weight == total_weight_of(window)
    IN IF too_few(window)
       THEN [returned |-> TRUE, action |-> "hold", new_level |-> current_level,
             reason |-> "too few", level_state |-> row]
       ELSE IF weighted_sum >= promote_threshold * total_weight /\ current_level < max_level
       THEN [returned |-> TRUE, action |-> "promote", new_level |-> current_level + 1,
             reason |-> "promote", level_state |-> LevelState(current_level + 1)]
       ELSE IF weighted_sum < demote_threshold * total_weight /\ current_level > 1
       THEN [returned |-> TRUE, action |-> "demote", new_level |-> current_level - 1,
             reason |-> "demote", level_state |-> LevelState(current_level - 1)]
       ELSE [returned |-> TRUE, action |-> "hold", new_level |-> current_level,
             reason |-> "holding", level_state |-> LevelState(current_level)]

\* score_total values of finished attempts
Scores == {10, 80}

\* the levels a parent posts to override_level
OverrideLevels == {0, 4, 7}

LevelInit ==
  /\ SessionInit /\ call = NoCall /\ scoring = NoScoring
  /\ level_state \in {NoLevelState, LevelState(1)}
  /\ attempts = <<>>
  /\ progression = NoProgression

\* finish_attempt, lines 108-116: the attempt gets its score_total
ScoreAttempt(score_total) ==
  /\ attempts' = SubSeq(<<score_total>> \o attempts, 1, Min(Len(attempts) + 1, MaxStored))
  /\ progression' = NoProgression
  /\ UNCHANGED <<frame, msg, pc, story_words, current_index, all_events, stuck_count, last,
                 timer_vars, stop_event, paused, taskA, taskB, taskC, openai_ws,
                 openai_last, connects, client_vars, storage_vars, call, scoring,
                 level_state>>

\* finish_attempt, line 128: the call of evaluate_progression
EvaluateProgression ==
  /\ LET result == evaluate_progression(level_state, attempts)
     IN /\ progression' = [returned |-> TRUE, action |-> result.action,
                           new_level |-> result.new_level, reason |-> result.reason]
        /\ level_state' = result.level_state
  /\ UNCHANGED <<frame, msg, pc, story_words, current_index, all_events, stuck_count, last,
                 timer_vars, stop_event, paused, taskA, taskB, taskC, openai_ws,
                 openai_last, connects, client_vars, storage_vars, call, scoring,
                 attempts>>

\* override_level (parent.py, lines 265-286)
override_level(level) ==
  /\ level_state' = IF level_state.row THEN LevelState(level) ELSE level_state
  /\ progression' = NoProgression
  /\ UNCHANGED <<frame, msg, pc, story_words, current_index, all_events, stuck_count, last,
                 timer_vars, stop_event, paused, taskA, taskB, taskC, openai_ws,
                 openai_last, connects, client_vars, storage_vars, call, scoring,
                 attempts>>

LevelNext ==
  \/ \E score_total \in Scores : ScoreAttempt(score_total)
  \/ EvaluateProgression
  \/ \E level \in OverrideLevels : override_level(level)

LevelSpec == LevelInit /\ [][LevelNext]_vars

(***************************************************************************)
(* Direct calls of edit_distance and of _fuzzy_ok.  call holds the         *)
(* arguments of one call and, once it has returned, its result.            *)
(***************************************************************************)
MaxLen == 3

Alphabet == {"a", "b"}

\* the strings over Alphabet of at most n characters
Strings(n) == UNION { [1..k -> Alphabet] : k \in 0..n }

\* edit_distance on the pairs of three strings a, b, c
EditCalls ==
  { [fn |-> "edit_distance", a |-> a, b |-> b, c |-> c, returned |-> FALSE,
     aa |-> 0, ab |-> 0, ba |-> 0, bc |-> 0, ac |-> 0] :
      a \in Strings(MaxLen), b \in Strings(MaxLen), c \in Strings(MaxLen) }

\* normalised words of every length tier of _fuzzy_ok, with near and far
\* misreadings of them, and alias pairs of the table (de/the, batter/parrot)
FuzzyWords ==
  { <<"a">>, <<"i">>, <<"a","t">>, <<"i","t">>, <<"d","e">>,
    <<"t","h","e">>, <<"c","a","t">>, <<"b","a","t">>, <<"c","a","p">>,
    <<"c","u","p">>, <<"c","o","a","t">>,
    <<"l","i","o","n">>, <<"l","i","n","e">>, <<"l","a","m","b">>,
    <<"p","a","r","r","o","t">>, <<"b","a","t","t","e","r">>,
    <<"g","i","r","a","f","f","e">>, <<"g","i","r","a","f">>,
    <<"g","e","r","a","f","e">>, <<"g","e","r","a","f">>,
    <<"j","i","r","a","f","f","e","s">> }

\* the thresholds: the default of align_transcript_to_story and its neighbours
Thresholds == {fuzzy_threshold_default - 1, fuzzy_threshold_default,
               fuzzy_threshold_default + 1}

FuzzyCalls ==
  { [fn |-> "_fuzzy_ok", recognized |-> r, expected |-> e, threshold |-> t,
     returned |-> FALSE, result |-> FALSE] :
      r \in FuzzyWords, e \in FuzzyWords, t \in Thresholds }

WordInit ==
  /\ SessionInit /\ call \in EditCalls \cup FuzzyCalls
  /\ scoring = NoScoring /\ ReaderInit

EditDistanceCall ==
  /\ call.fn = "edit_distance"
  /\ ~call.returned
  /\ call' = [call EXCEPT !.returned = TRUE,
                          !.aa = edit_distance(call.a, call.a),
                          !.ab = edit_distance(call.a, call.b),
                          !.ba = edit_distance(call.b, call.a),
                          !.bc = edit_distance(call.b, call.c),
                          !.ac = edit_distance(call.a, call.c)]
  /\ UNCHANGED <<frame, msg, pc, story_words, current_index, all_events, stuck_count, last,
                 timer_vars, stop_event, paused, taskA, taskB, taskC, openai_ws,
                 openai_last, connects, client_vars, storage_vars, service_vars>>

FuzzyOkCall ==
  /\ call.fn = "_fuzzy_ok"
  /\ ~call.returned
  /\ call' = [call EXCEPT !.returned = TRUE,
                          !.result = _fuzzy_ok(call.recognized, call.expected,
                                               call.threshold)]
  /\ UNCHANGED <<frame, msg, pc, story_words, current_index, all_events, stuck_count, last,
                 timer_vars, stop_event, paused, taskA, taskB, taskC, openai_ws,
                 openai_last, connects, client_vars, storage_vars, service_vars>>

WordNext == EditDistanceCall \/ FuzzyOkCall

WordSpec == WordInit /\ [][WordNext]_vars

(***************************************************************************)
(* The stuck counter observed: a session whose provider delivers           *)
(* transcripts only and whose browser only listens.  msg counts the        *)
(* processed transcripts in a row that confirmed no word.                  *)
(***************************************************************************)
MaxStuckEvents == 7

\* "a", "zzz" and " Bigg dog! "
StuckTranscripts == {w_a, t_miss, t_read}

\* the processed transcripts without a correct or fuzzy event in a row, up to
\* and including one with the given events, counted from the last transcript
\* with such an event or the last forced advance
run_of(events) ==
  LET before == IF last.processed /\ ~last.forced /\ msg.type = "run"
                THEN msg.run ELSE 0
  IN IF spoken_events(events) # <<>> THEN 0 ELSE before + 1

StuckNext ==
  \/ Tick
  \/ ConnectOK
  \/ \E text \in StuckTranscripts, delivered \in BOOLEAN :
       /\ B_TranscriptWithin(text, delivered, MaxStuckEvents)
       /\ LET events == align_transcript_to_story(story_words, strip(text),
                          current_index, lookahead_default,
                          fuzzy_threshold_default, max_advance_default)
          IN msg' = IF skipped(strip(text), events) THEN msg
                    ELSE [type |-> "run", run |-> run_of(events)]

StuckSpec == Init /\ [][StuckNext]_vars

(***************************************************************************)
(* Pause and resume observed: a session whose browser sends audio, pause   *)
(* and resume frames while transcripts come in.  msg keeps the observer's  *)
(* log of the paused flag: since when it is true, for how long it has been *)
(* true in the closed pauses, and the time between a pause and a further   *)
(* pause received while the flag was true.                                 *)
(***************************************************************************)
NoPauseLog == [type |-> "pause_log", since |-> 0, total |-> 0, overwritten |-> 0]

pause_log == IF msg.type = "pause_log" THEN msg ELSE NoPauseLog

PauseNext ==
  \/ Tick
  \/ ConnectOK
  \/ A_Audio
  \/ /\ A_Pause
     /\ msg' = IF paused
               THEN [pause_log EXCEPT !.overwritten = @ + (now - _pause_start)]
               ELSE [pause_log EXCEPT !.since = now]
  \/ /\ A_Resume
     /\ msg' = IF paused
               THEN [pause_log EXCEPT !.since = 0,
                                      !.total = @ + (now - pause_log.since)]
               ELSE pause_log
  \/ \E text \in Transcripts, delivered \in BOOLEAN :
       B_Transcript(text, delivered) /\ UNCHANGED msg

PauseSpec == Init /\ [][PauseNext]_vars

(***************************************************************************)
(* finish_attempt up to the commit of the score (attempts.py, lines        *)
(* 70-116): the WordEvent rows of the attempt are loaded, handed to        *)
(* compute_score and the score is stored.  stored holds the rows a session *)
(* persisted, story_words the story; the call of evaluate_progression that *)
(* follows is EvaluateProgression of LevelSpec.                            *)
(***************************************************************************)
\* the stories of 1 .. MaxWords words
FinishStories == { SubSeq(s_long, 1, n) : n \in 1..MaxWords }

\* what a session heard: nothing, words that match nothing, the first words,
\* the whole story, words further on
FinishTranscripts == {t_punct, t_miss, w_a, t_dog_ran, t_jump, join(<<w_a, w_big>>)}

\* lines 92-99: the dicts built from the rows (no word_index among the keys)
event_dicts(events) ==
  [i \in 1..Len(events) |->
     [event_type |-> events[i].match, expected_word |-> events[i].expected,
      recognized_word |-> events[i].recognized]]

FinishInit ==
  /\ \E s \in FinishStories, t \in FinishTranscripts :
       /\ story_words = s
       /\ stored = align_transcript_to_story(s, t, 0, lookahead_default,
                     fuzzy_threshold_default, max_advance_default)
  /\ pc = "done"
  /\ current_index = 0 /\ all_events = <<>> /\ stuck_count = 0
  /\ now = 1 /\ _session_start_time = 1 /\ _paused_duration = 0 /\ _pause_start = 0
  /\ stop_event = TRUE /\ paused = FALSE
  /\ taskA = "done" /\ taskB = "done" /\ taskC = "done"
  /\ openai_ws = "closed" /\ openai_last = "none" /\ connects = 1
  /\ client_last = NoMessage /\ n_complete = 0 /\ save_calls = 1
  /\ last = NoTranscript /\ frame = NoFrame /\ msg = NoEvent
  /\ call = NoCall /\ scoring = NoScoring /\ ReaderInit

\* lines 76-116 for an attempt with the given duration and counters
finish_attempt(duration, interventions, skips) ==
  /\ ~scoring.returned
  /\ scoring' = [returned |-> TRUE,
                 word_events |-> event_dicts(stored),
                 total_words |-> Len(story_words),
                 duration_seconds |-> duration,
                 interventions |-> interventions,
                 skips |-> skips,
                 score |-> compute_score(event_dicts(stored), Len(story_words),
                                         duration, interventions, skips)]
  /\ UNCHANGED <<frame, msg, pc, story_words, current_index, all_events, stuck_count, last,
                 timer_vars, stop_event, paused, taskA, taskB, taskC, openai_ws,
                 openai_last, connects, client_vars, storage_vars, call,
                 level_state, attempts, progression>>

FinishNext ==
  \E duration \in Durations, interventions \in 0..1, skips \in 0..1 :
    finish_attempt(duration, interventions, skips)

FinishSpec == FinishInit /\ [][FinishNext]_vars

(***************************************************************************)
(* Properties.                                                             *)
(***************************************************************************)
ended == pc \in {"done", "raised"}

\* the three tasks were started
reached_active == taskA # "idle"

\* the events the step appended to the buffer
appended == SubSeq(all_events', Len(all_events) + 1, Len(all_events'))

\* a transcript was processed in this step (every processed transcript
\* appends at least one event)
processed_step == all_events' # all_events

\* the cursor the events of one align call propose: one past the last
\* correct/fuzzy event, else the cursor the call started from
align_cursor(events, cur) ==
  IF \E i \in 1..Len(events) : events[i].match \in {"correct", "fuzzy"}
  THEN events[CHOOSE i \in 1..Len(events) :
                /\ events[i].match \in {"correct", "fuzzy"}
                /\ \A j \in (i + 1)..Len(events) :
                     events[j].match \notin {"correct", "fuzzy"}].word_index + 1
  ELSE cur

\* C1: in every reachable state 0 <= current_index <= len(story_words), and the
\* current_index of every alignment message sent to the browser is in that range.
C1_CursorInRange ==
  /\ 0 <= current_index
  /\ current_index <= Len(story_words)
  /\ client_last.type = "alignment" =>
       /\ 0 <= client_last.current_index
       /\ client_last.current_index <= Len(story_words)

\* C1 witness: transcripts were processed around a pause and a resume, the
\* cursor moved into the story and an alignment message carried it.
C1_Witness ==
  /\ last.processed
  /\ _paused_duration > 0
  /\ current_index > 0
  /\ client_last.type = "alignment"
  /\ client_last.current_index = current_index

\* C2: the cursor never decreases: no step of the session, whatever pause and
\* resume commands came between the transcripts, leaves current_index smaller.
C2_CursorMonotonic == [][current_index' >= current_index]_vars

\* C3: for every processed transcript the cursor stored and sent is
\* min(wanted, floor(elapsed * MAX_WPS) + 1) with elapsed = now - start - paused
\* duration; and at 2.5 words/s, elapsed 1.0 s, a wanted cursor of 10 gives 3.
C3_GovernedCursor ==
  /\ rate_limited(10, max_allowed_of(TicksPerSecond, 25)) = 3
  /\ [][processed_step =>
          LET elapsed == now - _session_start_time - _paused_duration
              cap == ((elapsed * MAX_WPS_x10) \div (10 * TicksPerSecond)) + 1
          IN /\ last'.processed
             /\ current_index' = Min(last'.wanted, cap)
             /\ current_index' <= cap
             /\ last'.sent =>
                  /\ client_last'.type = "alignment"
                  /\ client_last'.current_index = current_index']_vars

\* C3 witness: after a pause and a resume the rate limiter held the cursor
\* below the cursor the events asked for, and the message was sent.
C3_Witness ==
  /\ last.processed
  /\ last.sent
  /\ _paused_duration > 0
  /\ last.wanted > current_index
  /\ client_last.type = "alignment"

\* C4 as claimed: the cursor of every alignment message is <= the cursor the
\* events of that align call propose.
C4_Original ==
  [][processed_step /\ last'.sent =>
       client_last'.current_index <= align_cursor(appended, current_index)]_vars

\* C4 as amended: the cursor of every alignment message is <= the cursor the
\* events of that align call propose, except when the stuck override fires (the
\* sixth transcript in a row with mismatch events and no correct, fuzzy or skip
\* event), where it is at most the input cursor + 1.
C4_Amended ==
  [][processed_step /\ last'.sent =>
       \/ client_last'.current_index <= align_cursor(appended, current_index)
       \/ /\ stuck_count + 1 >= STUCK_LIMIT
          /\ \A i \in 1..Len(appended) : appended[i].match = "mismatch"
          /\ client_last'.current_index <= current_index + 1]_vars

\* C4 witness: the stuck override fired and its message, with the cursor one
\* past the input cursor, was sent.
C4_Witness ==
  /\ last.processed
  /\ last.forced
  /\ last.sent
  /\ client_last.type = "alignment"
  /\ client_last.current_index = last.prev_index + 1

\* C5 (auxiliary): no processed transcript has skip events without a correct or
\* fuzzy event after them; the case the claim is about does not occur.
C5_SkipNeverAlone ==
  [][processed_step =>
       \A i \in 1..Len(appended) :
         appended[i].match = "skip" =>
           \E j \in (i + 1)..Len(appended) :
             appended[j].match \in {"correct", "fuzzy"}]_vars

\* C6: when a session that reached Active has ended, the event buffer was
\* written to storage once if it holds events and not at all otherwise; it is
\* never written twice, and never before the session ends.
C6_FlushedOnce ==
  /\ save_calls <= 1
  /\ pc = "active" => save_calls = 0 /\ stored = <<>>
  /\ (ended /\ reached_active) =>
       save_calls = (IF all_events # <<>> THEN 1 ELSE 0)
  /\ (pc = "done" /\ all_events # <<>>) => stored = all_events

\* C6 witness: a session ended after a provider stream loss with events in the
\* buffer, and they were written.
C6_Witness ==
  /\ pc = "done"
  /\ openai_ws = "lost"
  /\ all_events # <<>>
  /\ save_calls = 1
  /\ stored = all_events

\* C7: once the stop signal is set, all three tasks terminate and teardown is
\* reached.
C7_TasksTerminate ==
  stop_event ~> (taskA = "done" /\ taskB = "done" /\ taskC = "done" /\ ended)

\* C7 (auxiliary): the inbound relay and the periodic commit do terminate once
\* the stop signal is set.
C7_InboundAndCommitTerminate == stop_event ~> (taskA = "done" /\ taskC = "done")

\* C8: the session is stopped for a lost provider stream only after the
\* reconnect budget of 3 is used up: 1 + 3 connection attempts were made.
C8_ReconnectBeforeAbort == openai_ws = "lost" => connects = 1 + 3

\* C9: a session that ended because the provider stream was lost told the
\* browser so: the last message to the browser is an error message.
C9_AbortReported ==
  (ended /\ openai_ws = "lost") => client_last.type = "error"

\* C10: a failed write of the event buffer is retried once, so one failure
\* loses nothing, and the failure does not leave the handler as an exception.
C10_RetryOnce ==
  (ended /\ reached_active /\ all_events # <<>>) =>
     /\ pc # "raised"
     /\ stored = all_events \/ save_calls = 2

\* the handler returned without starting the relay tasks
failed_to_connect == pc = "done" /\ taskA = "idle"

\* C11: when connecting to or configuring the provider fails, the browser gets
\* exactly one message, an error; the handler ends there and nothing more
\* happens; the session is never Active: no task was started, no audio or
\* commit went to the provider, no transcript was aligned. Active is entered
\* only with the connection open and configured, and without a message.
C11_ConnectFailure ==
  /\ [](failed_to_connect =>
          /\ client_last = [type |-> "error", message |-> "connect"]
          /\ taskA = "idle" /\ taskB = "idle" /\ taskC = "idle"
          /\ openai_last = "none"
          /\ all_events = <<>> /\ ~last.processed /\ current_index = 0
          /\ ~stop_event /\ n_complete = 0 /\ save_calls = 0)
  /\ [][pc = "connecting" =>
          /\ client_last = NoMessage
          /\ \/ failed_to_connect'
             \/ /\ pc' = "active"
                /\ openai_ws' = "open"
                /\ openai_last' = "transcription_session.update"
                /\ client_last' = NoMessage]_vars
  /\ [][~failed_to_connect]_vars

\* C11 witness: the send of the session configuration failed on an open
\* connection, and the browser has the error message.
C11_Witness ==
  /\ failed_to_connect
  /\ openai_ws = "open"
  /\ client_last.type = "error"

\* C12: align_transcript_to_story never moves backwards: the cursor its events
\* give (one past the last correct/fuzzy event, else the input cursor) is >= the
\* input cursor, and no returned event has a word_index below the input cursor.
C12_NeverBackwards ==
  call.returned =>
    /\ align_cursor(call.events, call.current_index) >= call.current_index
    /\ \A i \in 1..Len(call.events) : call.events[i].word_index >= call.current_index

\* C12 witness: a call from inside the story returned skip events and a match,
\* and its cursor is past the input cursor.
C12_Witness ==
  /\ call.returned
  /\ call.current_index > 0
  /\ \E i \in 1..Len(call.events) : call.events[i].match = "skip"
  /\ align_cursor(call.events, call.current_index) > call.current_index

\* the call's transcript repeats story_words[current_index:] token for token
reproduces == call.transcript_text = reproduce(call.story_words, call.current_index)

\* one correct event for each of the n words from the call's cursor on, the
\* recognised token being the word itself
correct_run(n) ==
  [i \in 1..n |-> event(call.current_index + i - 1, call.story_words,
                        call.story_words[call.current_index + i], "correct")]

\* C13 as claimed: when the transcript reproduces target[cursor:] token for
\* token, align returns exactly one correct event per remaining word, in order,
\* and the final cursor is len(target), for every target and cursor (stated for
\* calls with the default lookahead and max_advance, as the session makes them).
C13_Original ==
  (/\ call.returned
   /\ reproduces
   /\ call.lookahead = lookahead_default
   /\ call.max_advance = max_advance_default) =>
    /\ call.events = correct_run(Len(call.story_words) - call.current_index)
    /\ align_cursor(call.events, call.current_index) = Len(call.story_words)

\* C13 as amended: when the transcript reproduces target[cursor:] token for
\* token and every remaining word has a non-empty normal form, align returns
\* exactly one correct event per word, in order, for the first
\* min(len(target) - cursor, max_advance) remaining words, and the final cursor
\* is the input cursor plus that number: len(target) when at most max_advance
\* words remain (the/cat/sat, 'the cat sat', cursor 0: 3 correct events, cursor 3).
C13_Amended ==
  /\ align_transcript_to_story(s_cat, join(s_cat), 0, lookahead_default,
                               fuzzy_threshold_default, max_advance_default)
       = [i \in 1..3 |-> event(i - 1, s_cat, s_cat[i], "correct")]
  /\ (/\ call.returned
      /\ reproduces
      /\ \A i \in (call.current_index + 1)..Len(call.story_words) :
           normalise(call.story_words[i]) # <<>>) =>
       LET n == Min(Len(call.story_words) - call.current_index, call.max_advance)
       IN /\ call.events = correct_run(n)
          /\ align_cursor(call.events, call.current_index) = call.current_index + n

\* C13 witness: more words remained than max_advance allows; the call with the
\* default limit returned 8 correct events and stopped 3 words before the end.
C13_Witness ==
  /\ call.returned
  /\ reproduces
  /\ call.story_words = s_long
  /\ call.current_index = 0
  /\ call.max_advance = max_advance_default
  /\ Len(call.events) = max_advance_default
  /\ align_cursor(call.events, 0) = Len(s_long) - 3

\* the call returned two skip events for the first two words, then a match for
\* the third and a match for the fourth, and the cursor is 4
skipped_two_then_read ==
  /\ Len(call.events) = 4
  /\ \A i \in 1..2 : /\ call.events[i].match = "skip"
                     /\ call.events[i].word_index = i - 1
                     /\ call.events[i].recognized = None
  /\ \A i \in 3..4 : /\ call.events[i].match \in {"correct", "fuzzy"}
                     /\ call.events[i].word_index = i - 1
  /\ align_cursor(call.events, call.current_index) = 4

\* C14: target a/big/dog/ran, transcript 'dog ran', cursor 0, lookahead >= 2:
\* align returns skip events for 'a' and 'big', then a match for 'dog', then a
\* match for 'ran', and the cursor is 4.
C14_SkippedWords ==
  (/\ call.returned
   /\ call.story_words = s_dog
   /\ call.transcript_text = t_dog_ran
   /\ call.current_index = 0
   /\ call.lookahead >= 2
   /\ call.max_advance = max_advance_default) => skipped_two_then_read

\* C14 (auxiliary): the scenario does give the claimed events when the word
\* read first has more than three letters (a/big/lion/ran, 'lion ran').
C14_LongerWord ==
  (/\ call.returned
   /\ call.story_words = s_lion
   /\ call.transcript_text = t_lion_ran
   /\ call.current_index = 0
   /\ call.lookahead >= 2
   /\ call.max_advance = max_advance_default) => skipped_two_then_read

\* the pair is in the alias table, read off the table in either direction
alias_pair(a, b) ==
  \E p \in _PHONETIC_ALIASES : \/ p[1] = a /\ b \in p[2]
                               \/ p[1] = b /\ a \in p[2]

\* the first token of the call's transcript differs from the word at the
\* cursor after normalisation and the two are an alias pair
alias_hit_at_cursor ==
  /\ call.current_index < Len(call.story_words)
  /\ split(call.transcript_text) # <<>>
  /\ LET recognized == normalise(split(call.transcript_text)[1])
         expected_norm == normalise(call.story_words[call.current_index + 1])
     IN recognized # expected_norm /\ alias_pair(recognized, expected_norm)

\* every entry of the table, in both directions: a call on the one-word target
\* with the one-token transcript returns one fuzzy event
every_alias_matches ==
  \A p \in _PHONETIC_ALIASES : \A b \in p[2] :
    p[1] # b =>
      /\ align_transcript_to_story(<<b>>, p[1], 0, lookahead_default,
                                   fuzzy_threshold_default, max_advance_default)
           = <<event(0, <<b>>, p[1], "fuzzy")>>
      /\ align_transcript_to_story(<<p[1]>>, b, 0, lookahead_default,
                                   fuzzy_threshold_default, max_advance_default)
           = <<event(0, <<p[1]>>, b, "fuzzy")>>

\* C15: a token that differs from the word at the cursor but is its alias in
\* the table (in either direction) gives exactly one fuzzy event for that word
\* and moves the cursor on by one, whatever the edit distance and the length of
\* the word: every later event is past that word, and a transcript of that one
\* token gives that one event and the input cursor + 1.
C15_AliasAlwaysMatches ==
  /\ every_alias_matches
  /\ (call.returned /\ alias_hit_at_cursor) =>
       LET tokens == split(call.transcript_text) IN
       /\ call.events # <<>>
       /\ call.events[1] = event(call.current_index, call.story_words, tokens[1], "fuzzy")
       /\ \A i \in 2..Len(call.events) : call.events[i].word_index > call.current_index
       /\ Len(tokens) = 1 =>
            /\ Len(call.events) = 1
            /\ align_cursor(call.events, call.current_index) = call.current_index + 1

\* C15 witness: target word 'the', token 'de', at edit distance 2 from a word
\* of length 3: one fuzzy event and the cursor at 1.
C15_Witness ==
  /\ call.returned
  /\ alias_hit_at_cursor
  /\ call.story_words = s_cat
  /\ call.current_index = 0
  /\ call.transcript_text = t_de
  /\ edit_distance(t_de, w_the) = 2
  /\ call.events = <<event(0, s_cat, t_de, "fuzzy")>>

\* C16: one align call never moves the cursor by more than max_advance words,
\* the skipped words counted: the cursor its events give is at most the input
\* cursor + max_advance.
C16_AdvanceCapped ==
  call.returned =>
    align_cursor(call.events, call.current_index) - call.current_index
      <= call.max_advance

\* C16 (auxiliary): what the loop does guarantee: the limit is tested before a
\* token is taken, so a call moves the cursor by less than
\* max_advance + lookahead + 1 words.
C16_AdvanceBelowLimitPlusLookahead ==
  call.returned =>
    align_cursor(call.events, call.current_index) - call.current_index
      <= call.max_advance - 1 + call.lookahead + 1

\* C16 (auxiliary, does not hold): the same for the calls with the default
\* limit of 8 alone; a/big/dog./ran/to/the/cat/it/is/so/lion with the transcript
\* 'a big dog ran to the cat lion' moves the cursor by 11.
C16_DefaultLimit ==
  (call.returned /\ call.max_advance = max_advance_default) =>
    align_cursor(call.events, call.current_index) - call.current_index
      <= max_advance_default

\* C17: while paused the provider gets no audio and no timer-driven commit. With
\* the connection open and the inbound relay running, the last message the
\* provider got is still the clear of the pause command; an audio frame that
\* arrived while paused was not forwarded; and no step taken while paused - a
\* dropped frame, a commit tick, the resume itself - sends the provider anything
\* but the clear of a further pause command or the final commit of a stop command.
C17_PausedSendsNothing ==
  /\ []((paused /\ openai_ws = "open" /\ taskA = "running") =>
          openai_last = "input_audio_buffer.clear")
  /\ []((frame.type = "audio" /\ paused) => ~frame.forwarded)
  /\ [][(paused /\ openai_last' # openai_last) =>
          \/ frame'.type = "pause" /\ openai_last' = "input_audio_buffer.clear"
          \/ /\ frame'.type = "stop"
             /\ taskA' = "stopping"
             /\ openai_last' = "input_audio_buffer.commit"]_vars

\* C17 witness: time has passed in a pause, with the commit task running and
\* the connection open, and an audio frame that arrived in the pause was dropped:
\* the provider's last message is still the clear.
C17_Witness ==
  /\ paused
  /\ frame = [type |-> "audio", forwarded |-> FALSE]
  /\ now > _pause_start
  /\ openai_ws = "open"
  /\ taskA = "running" /\ taskC = "running"
  /\ ~stop_event
  /\ openai_last = "input_audio_buffer.clear"

\* C18: on a stop command the inbound relay first sends the final commit to the
\* provider (when the connection is open), the stop signal not being set by
\* that step; only then does it set the stop signal and end; and once the stop
\* command was received it receives no further frame and no audio goes to the
\* provider.
C18_CommitThenStop ==
  /\ [][(frame'.type = "stop" /\ frame.type # "stop") =>
          /\ taskA = "running" /\ taskA' = "stopping"
          /\ openai_ws = "open" => openai_last' = "input_audio_buffer.commit"
          /\ stop_event' = stop_event]_vars
  /\ [](taskA = "stopping" => frame.type = "stop")
  /\ [][(taskA = "stopping" /\ taskA' # "stopping") =>
          taskA' = "done" /\ stop_event']_vars
  /\ []((frame.type = "stop" /\ taskA = "done") => stop_event)
  /\ [][frame.type = "stop" =>
          /\ frame' = frame
          /\ openai_last' \in {openai_last, "input_audio_buffer.commit"}]_vars

\* C18 witness: the stop command was received and the final commit is with the
\* provider, the stop signal not yet set.
C18_Witness ==
  /\ frame.type = "stop"
  /\ taskA = "stopping"
  /\ ~stop_event
  /\ openai_ws = "open"
  /\ openai_last = "input_audio_buffer.commit"

\* C19: _paused_duration never decreases; it changes only in the step that
\* processes a resume command with a pause start recorded; a resume that ends a
\* pause adds the time since the recorded pause start to the total and clears
\* the pause start; and nothing else clears the pause start.
C19_PausedDuration ==
  /\ [](_paused_duration >= 0)
  /\ [][_paused_duration' >= _paused_duration]_vars
  /\ [][_paused_duration' # _paused_duration =>
          frame'.type = "resume" /\ _pause_start > 0]_vars
  /\ [][(frame'.type = "resume" /\ (paused \/ _pause_start > 0) /\ ~paused') =>
          /\ _paused_duration' = _paused_duration + (now - _pause_start)
          /\ _pause_start' = 0]_vars
  /\ [][(_pause_start' = 0 /\ _pause_start # 0) => frame'.type = "resume"]_vars

\* C19 witness: a resume ended a pause, the pause start is cleared and two
\* ticks of paused time are in the total.
C19_Witness ==
  /\ frame.type = "resume"
  /\ ~paused
  /\ _pause_start = 0
  /\ _paused_duration = 2
  /\ now = _session_start_time + 2

\* C20: a transcript that brings the cursor to len(story_words), its alignment
\* message delivered, takes the outbound relay to the sending of "complete",
\* the stop signal not yet set; "complete" follows that alignment message
\* directly, with the cursor at len(story_words), at most once in a session,
\* while the handler is still before teardown (provider connection open,
\* nothing written to storage); and that step sets the stop signal and ends the
\* relay.
C20_CompleteThenStop ==
  /\ [][(taskB = "running" /\ taskB' = "completing") =>
          /\ processed_step /\ last'.sent
          /\ current_index' = Len(story_words)
          /\ client_last'.type = "alignment"
          /\ client_last'.current_index = Len(story_words)
          /\ UNCHANGED <<n_complete, stop_event>>]_vars
  /\ [][(processed_step /\ last'.sent /\ current_index' >= Len(story_words)) =>
          taskB' = "completing"]_vars
  /\ [][(n_complete' # n_complete \/ client_last'.type = "complete") =>
          \/ UNCHANGED <<n_complete, client_last>>
          \/ /\ taskB = "completing" /\ taskB' = "done"
             /\ n_complete = 0 /\ n_complete' = 1
             /\ client_last.type = "alignment"
             /\ client_last.current_index = Len(story_words)
             /\ client_last'.type = "complete"
             /\ current_index = Len(story_words)
             /\ stop_event'
             /\ pc = "active" /\ openai_ws = "open" /\ save_calls = 0]_vars
  /\ [][(taskB = "completing" /\ taskB' # taskB) =>
          taskB' = "done" /\ stop_event']_vars
  /\ [](/\ n_complete <= 1
        /\ n_complete = 1 => current_index = Len(story_words) /\ stop_event
        /\ (save_calls > 0 \/ openai_ws = "closed") => taskB = "done")

\* C20 witness: the story was completed, "complete" was the last message to
\* the browser, and teardown then closed the provider connection and wrote the
\* events.
C20_Witness ==
  /\ n_complete = 1
  /\ client_last.type = "complete"
  /\ pc = "done"
  /\ openai_ws = "closed"
  /\ save_calls = 1
  /\ stored = all_events

\* a step in which the outbound relay took an "error" event from the provider
error_step == msg' # msg /\ msg'.type = "error"

\* the generic error message of line 704-707
generic_error == [type |-> "error", message |-> "keep reading"]

\* C21: a provider error with "buffer too small" in its message sends nothing
\* to the browser; any other provider error, the browser taking the message,
\* leaves the generic error message as the last message to the browser; in
\* both cases the stop signal is not set, the relay keeps running, the handler
\* stays active, and cursor, stuck counter and event buffer are unchanged.
\* During the session an error message reaches the browser in no other way.
C21_ProviderError ==
  /\ [][(error_step /\ msg'.benign) =>
          /\ ~msg'.sent
          /\ UNCHANGED <<client_last, n_complete>>
          /\ UNCHANGED <<stop_event, taskB, pc, openai_ws>>
          /\ UNCHANGED <<current_index, stuck_count, all_events, last>>]_vars
  /\ [][(error_step /\ ~msg'.benign /\ msg'.sent) =>
          /\ client_last' = generic_error
          /\ UNCHANGED n_complete
          /\ UNCHANGED <<stop_event, taskB, pc, openai_ws>>
          /\ ~stop_event' /\ taskB' = "running" /\ pc' = "active"
          /\ UNCHANGED <<current_index, stuck_count, all_events, last>>]_vars
  /\ [][(pc = "active" /\ client_last' # client_last /\ client_last'.type = "error") =>
          error_step /\ ~msg'.benign /\ msg'.sent]_vars

\* C21 auxiliary: a provider error never touches cursor, stuck counter or
\* event buffer, also when the browser does not take the error message; the
\* relay then sets the stop signal and ends.
C21_ErrorSendFails ==
  [][(error_step /\ ~msg'.benign /\ ~msg'.sent) =>
       /\ UNCHANGED <<client_last, n_complete>>
       /\ stop_event' /\ taskB' = "done"
       /\ UNCHANGED <<current_index, stuck_count, all_events, last>>]_vars

\* C21 witness: in the middle of a reading a provider error was reported to
\* the browser and a later "buffer too small" error was ignored, leaving that
\* message in place; the session goes on.
C21_Witness ==
  /\ msg = [type |-> "error", benign |-> TRUE, sent |-> FALSE]
  /\ client_last = generic_error
  /\ all_events # <<>>
  /\ current_index > 0
  /\ ~stop_event /\ taskB = "running" /\ pc = "active"

\* C22: the event buffer only ever grows at its end, what was in it stays as
\* it was and where it was; and each growth is exactly the events that
\* align_transcript_to_story returns for one received transcript from the
\* cursor the previous step left, in the order it returns them.
C22_SequentialAppend ==
  [][/\ Len(all_events') >= Len(all_events)
     /\ SubSeq(all_events', 1, Len(all_events)) = all_events
     /\ processed_step =>
          /\ last'.prev_index = current_index
          /\ \E text \in Transcripts :
               appended = align_transcript_to_story(story_words, strip(text),
                            current_index, lookahead_default,
                            fuzzy_threshold_default, max_advance_default)
          /\ \A i \in 1..Len(appended) : appended[i].word_index >= current_index]_vars

\* C22 witness: a second transcript was aligned from the cursor the first one
\* left, in a session with a pause and a resume of measurable length behind
\* it, and the buffer holds the events of both.
C22_Witness ==
  /\ last.processed
  /\ last.prev_index > 0
  /\ _paused_duration > 0
  /\ ~paused
  /\ Len(all_events) >= 4
  /\ current_index > last.prev_index

\* a step in which the outbound relay took a transcript and passed it over
skipped_step == msg' # msg /\ msg'.type = "transcript" /\ msg'.fate # "aligned"

\* C23: a transcript that is empty or blank, or whose alignment has no events
\* (every token normalises to ""), is passed over: cursor, stuck counter and
\* event buffer stay, nothing is sent to the browser, the stop signal is not
\* set, and relay and handler go on; every transcript in Transcripts that is
\* blank or has only such tokens is passed over.
C23_AnomalySkipped ==
  /\ [][skipped_step =>
          /\ UNCHANGED <<current_index, stuck_count, all_events, last>>
          /\ UNCHANGED <<client_last, n_complete>>
          /\ UNCHANGED <<stop_event, taskB, pc, openai_ws>>
          /\ ~stop_event' /\ taskB' = "running" /\ pc' = "active"]_vars
  /\ [][(msg' # msg /\ msg'.type = "transcript" /\ msg'.fate = "aligned") =>
          processed_step]_vars
  /\ [](/\ fate_of(story_words, t_blank, current_index) = "empty"
        /\ taskB = "running" =>
                fate_of(story_words, t_punct, current_index) = "no_events")

\* C23 witness: in the middle of a reading a transcript of punctuation only
\* was passed over and the session goes on with what it had.
C23_Witness ==
  /\ msg = [type |-> "transcript", fate |-> "no_events"]
  /\ all_events # <<>>
  /\ current_index > 0
  /\ stuck_count > 0
  /\ client_last.type = "alignment"
  /\ ~stop_event /\ taskB = "running" /\ pc = "active"

\* C23 witness, second case: a blank transcript was passed over.
C23_WitnessBlank ==
  /\ msg = [type |-> "transcript", fate |-> "empty"]
  /\ all_events # <<>>
  /\ ~stop_event /\ taskB = "running" /\ pc = "active"

\* C27: a call of compute_score with total_words = 0 returns, it does not
\* raise, and what it returns is the same for every word_events, duration,
\* interventions and skips: total and every subscore 0, wpm 0, words_reached
\* 0 and the neutral encouragement.
C27_EmptyStoryScore ==
  (scoring.returned /\ scoring.total_words = 0) =>
    /\ "raised" \notin DOMAIN scoring.score
    /\ scoring.score.total = 0
    /\ scoring.score.completion = 0 /\ scoring.score.effort = 0
    /\ scoring.score.accuracy = 0 /\ scoring.score.fluency = 0
    /\ scoring.score.independence = 0
    /\ scoring.score.wpm = 0
    /\ scoring.score.words_reached = 0
    /\ scoring.score.summary =
         [encouragement |-> "together", completion_pct |-> 0, words_reached |-> 0,
          total_words |-> 0]

\* C27 witness: the empty result came back for a call with events that reach
\* far, a duration of zero, an intervention and a skip.
C27_Witness ==
  /\ scoring.returned
  /\ scoring.total_words = 0
  /\ scoring.word_events = <<[event_type |-> "correct", word_index |-> MaxWords + 1],
                             [event_type |-> "correct"]>>
  /\ scoring.duration_seconds = 0
  /\ scoring.interventions = 1 /\ scoring.skips = 1
  /\ scoring.score.total = 0

\* C28: for total_words > 0 (scores in tenths of a point) the total is within
\* 0..100 and is the completion subscore plus the effort subscore, completion
\* is within 0..80, effort within 0..20, and words_reached is within
\* 0..total_words.
C28_ScoreRanges ==
  (scoring.returned /\ scoring.total_words > 0) =>
    /\ "raised" \notin DOMAIN scoring.score
    /\ scoring.score.total \in 0..1000
    /\ scoring.score.completion \in 0..800
    /\ scoring.score.effort \in 0..200
    /\ scoring.score.total = scoring.score.completion + scoring.score.effort
    /\ scoring.score.words_reached \in 0..scoring.total_words

\* C28 witness: events reaching past the end of a three-word story give
\* words_reached = 3 and the full score.
C28_Witness ==
  /\ scoring.returned
  /\ scoring.total_words = 3
  /\ scoring.word_events = <<[event_type |-> "correct", word_index |-> 5]>>
  /\ scoring.score.words_reached = 3
  /\ scoring.score.completion = 800 /\ scoring.score.effort = 200
  /\ scoring.score.total = 1000

\* C28 witness, partial reading: two of five words give 32.0 + 8.0 = 40.0.
C28_WitnessPartial ==
  /\ scoring.returned
  /\ scoring.total_words = 5
  /\ scoring.score.words_reached = 2
  /\ scoring.score.completion = 320 /\ scoring.score.effort = 80
  /\ scoring.score.total = 400

\* a step that is a call of evaluate_progression for a reader with a level row
evaluation_step == progression'.returned /\ level_state.row

\* C24: a call of evaluate_progression for a reader with fewer than 3 scored
\* attempts returns hold with new_level the reader's current level and leaves
\* the stored level as it is, whatever the scores and the level are.
C24_TooFewHolds ==
  [][(evaluation_step /\ Len(attempts) < 3) =>
       /\ progression'.action = "hold"
       /\ progression'.new_level = level_state.current_level
       /\ level_state' = level_state]_vars

\* C24 witness: two attempts scored 80 each, which would promote if they
\* counted, and the call held the reader at level 1.
C24_Witness ==
  /\ progression.returned
  /\ progression.action = "hold" /\ progression.new_level = 1
  /\ attempts = <<80, 80>>
  /\ level_state = LevelState(1)

\* the sum of the scores, newest first, the newest weighing as many as there
\* are and the oldest 1
recency_weighted(scores) ==
  LET RECURSIVE ws(_)
      ws(s) == IF s = <<>> THEN 0 ELSE Head(s) * Len(s) + ws(Tail(s))
  IN ws(scores)

\* the newest 10 of the scored attempts, or all when there are fewer
last_W(scores) == [i \in 1..Min(Len(scores), progression_window) |-> scores[i]]

\* C25: with at least 3 scored attempts, the average being the
\* recency-weighted sum of the newest W scores over the sum 1 + ... + n of the
\* weights: the call promotes iff average >= promote threshold and the level
\* is below the maximum; demotes iff it does not promote, average < demote
\* threshold and the level is above 1; holds otherwise; a promotion raises
\* returned and stored level by exactly one, a demotion lowers them by
\* exactly one, a hold leaves them.
C25_Decision ==
  [][(evaluation_step /\ Len(attempts) >= 3) =>
       LET scores == last_W(attempts)
           n == Len(scores)
           sum == recency_weighted(scores)
           weights == (n * (n + 1)) \div 2
           level == level_state.current_level
           promotes == sum >= promote_threshold * weights /\ level < max_level
           demotes == ~promotes /\ sum < demote_threshold * weights /\ level > 1
       IN /\ progression'.action \in {"promote", "demote", "hold"}
          /\ (progression'.action = "promote") <=> promotes
          /\ (progression'.action = "demote") <=> demotes
          /\ level_state'.row
          /\ level_state'.current_level = progression'.new_level
          /\ progression'.new_level =
               IF promotes THEN level + 1 ELSE IF demotes THEN level - 1 ELSE level]_vars

\* C25 witness: more scored attempts than the window holds, the oldest a high
\* score that no longer counts, and the call demoted the reader.
C25_Witness ==
  /\ progression.returned /\ progression.action = "demote"
  /\ Len(attempts) > progression_window
  /\ attempts[Len(attempts)] = 80
  /\ \A i \in 1..progression_window : attempts[i] = 10
  /\ level_state.row /\ level_state.current_level = progression.new_level

\* C25 witness, promotion at the threshold: three attempts of 80 give an
\* average of exactly 80.
C25_WitnessPromote ==
  /\ progression.returned /\ progression.action = "promote"
  /\ attempts = <<80, 80, 80>>
  /\ level_state = LevelState(2)

\* C25 witness, hold at the demote threshold: an average of exactly 45.
C25_WitnessHold ==
  /\ progression.returned /\ progression.action = "hold"
  /\ attempts = <<80, 10, 10>>
  /\ level_state = LevelState(4)

\* C26: the stored current_level of a reader is within 1..max_level.
C26_LevelInRange ==
  level_state.row => level_state.current_level \in 1..max_level

\* C26 auxiliary: a call of evaluate_progression that finds the level within
\* 1..max_level leaves it there: no promotion at the maximum, no demotion at 1.
C26_EvaluationSaturates ==
  [][(evaluation_step /\ level_state.current_level \in 1..max_level) =>
       /\ level_state'.current_level \in 1..max_level
       /\ level_state.current_level = max_level => progression'.action # "promote"
       /\ level_state.current_level = 1 => progression'.action # "demote"]_vars

\* the token matches the story word at story_idx (exactly, fuzzily or as a
\* substring) or a lookahead candidate after it
matches_somewhere(raw_token, story_idx) ==
  LET recognized == normalise(raw_token)
      expected_norm == normalise(call.story_words[story_idx + 1])
  IN \/ recognized = expected_norm
     \/ _fuzzy_ok(recognized, expected_norm, call.fuzzy_threshold)
     \/ _contains_word(recognized, expected_norm)
     \/ skip_target_of(call.story_words, recognized, story_idx, call.lookahead,
                       call.fuzzy_threshold) > 0

\* the first token of the call's transcript is a word that matches nothing
\* from the call's cursor
first_token_unmatched ==
  LET tokens == split(call.transcript_text)
  IN /\ tokens # <<>>
     /\ normalise(tokens[1]) # <<>>
     /\ call.current_index < Len(call.story_words)
     /\ ~matches_somewhere(tokens[1], call.current_index)

\* C30: a token that matches nothing at the cursor or ahead of it gives
\* exactly one event, a mismatch at the cursor with the raw token as
\* recognized, and the remaining tokens give what a call on them from the same
\* cursor gives; and every mismatch event in a result carries a raw token of
\* the transcript that matches nothing at its index, and the event after it
\* has the same word_index.
C30_MismatchStays ==
  call.returned =>
    /\ first_token_unmatched =>
         LET tokens == split(call.transcript_text)
         IN /\ call.events # <<>>
            /\ call.events[1] = [word_index |-> call.current_index,
                                 expected |-> call.story_words[call.current_index + 1],
                                 recognized |-> tokens[1], match |-> "mismatch"]
            /\ Tail(call.events) =
                 align_transcript_to_story(call.story_words, join(Tail(tokens)),
                   call.current_index, call.lookahead, call.fuzzy_threshold,
                   call.max_advance)
    /\ \A k \in 1..Len(call.events) :
         call.events[k].match = "mismatch" =>
           /\ \E j \in 1..Len(split(call.transcript_text)) :
                call.events[k].recognized = split(call.transcript_text)[j]
           /\ ~matches_somewhere(call.events[k].recognized, call.events[k].word_index)
           /\ k < Len(call.events) =>
                call.events[k + 1].word_index = call.events[k].word_index

\* C30 witness: "zzz the" from the cursor at "the": a mismatch at that index
\* and then the match of "the" at the same index.
C30_Witness ==
  /\ call.returned
  /\ call.transcript_text = t_miss_the
  /\ first_token_unmatched
  /\ Len(call.events) = 2
  /\ call.events[1].match = "mismatch" /\ call.events[1].recognized = t_miss
  /\ call.events[2].match = "correct"
  /\ call.events[2].word_index = call.events[1].word_index
  /\ call.events[1].word_index = call.current_index

\* the offset of the lookahead hit of the call's first token, or 0: the token
\* is a word that does not match the word at the cursor (exactly, fuzzily or
\* as a substring) and the lookahead loop breaks at that offset
first_token_offset ==
  LET tokens == split(call.transcript_text)
  IN IF /\ tokens # <<>>
        /\ normalise(tokens[1]) # <<>>
        /\ call.current_index < Len(call.story_words)
        /\ LET recognized == normalise(tokens[1])
               expected_norm == normalise(call.story_words[call.current_index + 1])
           IN /\ recognized # expected_norm
              /\ ~_fuzzy_ok(recognized, expected_norm, call.fuzzy_threshold)
              /\ ~_contains_word(recognized, expected_norm)
              /\ skip_target_of(call.story_words, recognized, call.current_index,
                                call.lookahead, call.fuzzy_threshold) > 0
     THEN skip_target_of(call.story_words, normalise(tokens[1]), call.current_index,
                         call.lookahead, call.fuzzy_threshold)
     ELSE 0

\* C31: a token whose lookahead hits at offset k gives exactly k skip events,
\* for the indices cursor .. cursor + k - 1 in order and with recognized null,
\* then one correct or fuzzy event at cursor + k with the raw token, and the
\* tokens after it are aligned from cursor + k + 1 (the story index moved on by
\* k + 1); and in every result a skip event has recognized null and is
\* followed by an event for the next index that is a skip, correct or fuzzy.
C31_LookaheadSkips ==
  call.returned =>
    /\ first_token_offset > 0 =>
         LET k == first_token_offset
             tokens == split(call.transcript_text)
         IN /\ Len(call.events) >= k + 1
            /\ \A s \in 1..k :
                 call.events[s] = [word_index |-> call.current_index + s - 1,
                                   expected |-> call.story_words[call.current_index + s],
                                   recognized |-> None, match |-> "skip"]
            /\ call.events[k + 1].word_index = call.current_index + k
            /\ call.events[k + 1].expected = call.story_words[call.current_index + k + 1]
            /\ call.events[k + 1].recognized = tokens[1]
            /\ call.events[k + 1].match \in {"correct", "fuzzy"}
            /\ SubSeq(call.events, k + 2, Len(call.events)) =
                 align_transcript_to_story(call.story_words, join(Tail(tokens)),
                   call.current_index + k + 1, call.lookahead,
                   call.fuzzy_threshold, call.max_advance - (k + 1))
    /\ \A i \in 1..Len(call.events) :
         call.events[i].match = "skip" =>
           /\ call.events[i].recognized = None
           /\ i < Len(call.events)
           /\ call.events[i + 1].word_index = call.events[i].word_index + 1
           /\ call.events[i + 1].match \in {"skip", "correct", "fuzzy"}

\* C31 witness: "lion ran" on a/big/lion/ran from the cursor 0: the lookahead
\* hits at offset 2, two skip events and the match of "lion" at index 2, then
\* "ran" at index 3.
C31_Witness ==
  /\ call.returned
  /\ call.story_words = s_lion
  /\ call.transcript_text = t_lion_ran
  /\ call.current_index = 0
  /\ first_token_offset = 2
  /\ Len(call.events) = 4
  /\ call.events[1].match = "skip" /\ call.events[2].match = "skip"
  /\ call.events[3].match = "correct" /\ call.events[3].word_index = 2
  /\ call.events[4].word_index = 3

\* the number of skip events that come directly before the i-th event: the
\* lookahead offset at which the i-th event was matched, 0 at the cursor
skips_before(events, i) ==
  CHOOSE k \in 0..(i - 1) :
    /\ \A j \in (i - k)..(i - 1) : events[j].match = "skip"
    /\ k = i - 1 \/ events[i - k - 1].match # "skip"

\* C32: in every result, a match made at a lookahead offset greater than 1 is
\* an exact one (the normalised token equals the normalised target word) and
\* token and target word are not both common/short words; a fuzzy event (fuzzy
\* or substring match) is made at the cursor or at offset 1 only; and no match
\* is made at an offset greater than lookahead.
C32_LookaheadGuards ==
  call.returned =>
    \A i \in 1..Len(call.events) :
      call.events[i].match \in {"correct", "fuzzy"} =>
        LET offset == skips_before(call.events, i)
            recognized == normalise(call.events[i].recognized)
            ahead_norm == normalise(call.events[i].expected)
        IN /\ offset <= call.lookahead
           /\ offset > 1 =>
                /\ recognized = ahead_norm
                /\ call.events[i].match = "correct"
                /\ ~(is_short(recognized) /\ is_short(ahead_norm))
                /\ ~(recognized \in _COMMON_SHORT_WORDS /\ ahead_norm \in _COMMON_SHORT_WORDS)
           /\ call.events[i].match = "fuzzy" => offset <= 1

\* C32 witness: the whole of "a big dog ran to the cat lion" on the long
\* target with lookahead 3: seven matches, then "lion" is matched exactly at
\* offset 3, after skip events for it/is/so.
C32_Witness ==
  /\ call.returned
  /\ call.story_words = s_long
  /\ call.transcript_text = t_jump
  /\ call.current_index = 0
  /\ call.lookahead = 3
  /\ Len(call.events) = 11
  /\ skips_before(call.events, 11) = 3
  /\ call.events[11].match = "correct"
  /\ call.events[11].word_index = 10

\* the textbook recurrence of the unit-cost Levenshtein distance
RECURSIVE levenshtein(_, _)
levenshtein(a, b) ==
  IF a = <<>> THEN Len(b)
  ELSE IF b = <<>> THEN Len(a)
  ELSE IF Head(a) = Head(b) THEN levenshtein(Tail(a), Tail(b))
  ELSE 1 + Min3(levenshtein(Tail(a), b), levenshtein(a, Tail(b)),
                levenshtein(Tail(a), Tail(b)))

\* C34: for all strings a, b, c of at most MaxLen characters over Alphabet,
\* edit_distance(a, a) = 0, edit_distance(a, b) = edit_distance(b, a) and
\* edit_distance(a, c) <= edit_distance(a, b) + edit_distance(b, c); and
\* edit_distance(a, b) is what the textbook recurrence gives.
C34_EditDistanceMetric ==
  (call.returned /\ call.fn = "edit_distance") =>
    /\ call.aa = 0
    /\ call.ab = call.ba
    /\ call.ac <= call.ab + call.bc
    /\ call.ab = levenshtein(call.a, call.b)

\* C34 witness: three different strings with positive distances, the way
\* over b being no shorter than the direct one (ab to a is 1, a to ba is 1,
\* ab to ba is 2).
C34_Witness ==
  /\ call.returned /\ call.fn = "edit_distance"
  /\ call.a = <<"a","b">> /\ call.b = <<"a">> /\ call.c = <<"b","a">>
  /\ call.ab = 1 /\ call.bc = 1 /\ call.ac = 2

\* the length-tiered rule, read on the length of the normalised target word
tiered_rule(recognized, expected, threshold) ==
  LET dist == edit_distance(recognized, expected)
      n == Len(expected)
  IN IF n <= 2 THEN recognized = expected
     ELSE IF n = 3
          THEN dist <= 1 /\ recognized # <<>> /\ recognized[1] = expected[1]
     ELSE IF n <= 6 THEN dist <= 2
     ELSE \/ dist <= threshold
          \/ /\ dist <= threshold + 1
             /\ Len(recognized) >= 2
             /\ recognized[1] = expected[1] /\ recognized[2] = expected[2]

\* C33: for a token and a target word that are not a hit of the alias table,
\* _fuzzy_ok is the length-tiered rule: target of length <= 2 exact only;
\* length 3 edit distance <= 1 and the same first character; length 4-6 edit
\* distance <= 2; length >= 7 edit distance <= threshold, or <= threshold + 1
\* when the two words share their first two characters.
C33_FuzzyTiers ==
  (/\ call.returned /\ call.fn = "_fuzzy_ok"
   /\ ~alias_pair(call.recognized, call.expected)) =>
    call.result = tiered_rule(call.recognized, call.expected, call.threshold)

\* C33 witness: "geraf" for "giraffe" with threshold 2: edit distance 3, the
\* first characters agree and the second do not, so no match; no alias pair.
C33_Witness ==
  /\ call.returned /\ call.fn = "_fuzzy_ok"
  /\ call.recognized = <<"g","e","r","a","f">>
  /\ call.expected = <<"g","i","r","a","f","f","e">>
  /\ call.threshold = fuzzy_threshold_default
  /\ ~alias_pair(call.recognized, call.expected)
  /\ edit_distance(call.recognized, call.expected) = fuzzy_threshold_default + 1
  /\ ~call.result

\* C33 coverage: every tier is exercised with a match and with a refusal
C33_TierCases ==
  /\ ~_fuzzy_ok(<<"a">>, <<"i">>, 2) /\ _fuzzy_ok(<<"i","t">>, <<"i","t">>, 2)
  /\ _fuzzy_ok(<<"c","a","p">>, <<"c","a","t">>, 2)
  /\ ~_fuzzy_ok(<<"b","a","t">>, <<"c","a","t">>, 2)
  /\ _fuzzy_ok(<<"l","i","n","e">>, <<"l","i","o","n">>, 2)
  /\ ~_fuzzy_ok(<<"l","a","m","b">>, <<"l","i","o","n">>, 2)
  /\ _fuzzy_ok(<<"g","i","r","a","f">>, <<"g","i","r","a","f","f","e">>, 2)
  /\ _fuzzy_ok(<<"g","i","r","a","f">>, <<"g","i","r","a","f","f","e">>, 1)
  /\ ~_fuzzy_ok(<<"g","e","r","a","f","e">>, <<"g","i","r","a","f","f","e">>, 1)
  /\ _fuzzy_ok(<<"g","e","r","a","f">>, <<"g","i","r","a","f","f","e">>, 3)
  /\ ~_fuzzy_ok(<<"g","e","r","a","f">>, <<"g","i","r","a","f","f","e">>, 2)

\* what the rate limiter allows at the time of the step
allowed_now ==
  max_allowed_of(elapsed_of(now, _session_start_time, _paused_duration), MAX_WPS_x10)

\* the stuck override fires in this step
forced_step == processed_step /\ last'.forced

\* the override fires on the STUCK_LIMIT-th processed transcript in a row
\* that has mismatch events and no correct or fuzzy event, and it resets the
\* counter; a transcript with a correct or fuzzy event resets the counter
stuck_counting ==
  /\ forced_step =>
       /\ msg'.run = STUCK_LIMIT
       /\ \E i \in 1..Len(appended) : appended[i].match = "mismatch"
       /\ \A i \in 1..Len(appended) : appended[i].match \notin {"correct", "fuzzy"}
       /\ stuck_count' = 0
  /\ (processed_step /\ \E i \in 1..Len(appended) :
                          appended[i].match \in {"correct", "fuzzy"}) =>
       /\ stuck_count' = 0
       /\ ~last'.forced

\* C35 as claimed: the override fires only on the sixth processed transcript
\* in a row with mismatch events and no correct or fuzzy event (counted from
\* the last transcript with such an event or the last forced advance); when it
\* fires the cursor moves on by exactly one word and the counter is 0; a
\* transcript with a correct or fuzzy event sets the counter to 0.
C35_Original ==
  [][/\ stuck_counting
     /\ forced_step => current_index' = current_index + 1]_vars

\* C35 as amended: the same, but when the override fires it asks for the
\* cursor + 1 and the rate limiter still applies: the cursor becomes the
\* smaller of cursor + 1 and the allowance of the rate limiter.
C35_Amended ==
  [][/\ stuck_counting
     /\ forced_step =>
          /\ last'.wanted = current_index + 1
          /\ current_index' = Min(current_index + 1, allowed_now)]_vars

\* C35 witness: the override fired on the sixth transcript in a row without a
\* confirmed word, the cursor moved on by one and the counter is 0.
C35_Witness ==
  /\ last.processed /\ last.forced
  /\ msg.type = "run" /\ msg.run = STUCK_LIMIT
  /\ current_index = last.prev_index + 1
  /\ stuck_count = 0

\* C35 (auxiliary, a state that is reached): the override fired and the rate
\* limiter kept the cursor where it was.
C35_HeldBack ==
  /\ last.processed /\ last.forced
  /\ current_index = last.prev_index



\* the elapsed time without any paused time: the closed pauses and, while a
\* pause is open, the time since it began
elapsed_unpaused ==
  elapsed_of(now, _session_start_time, _paused_duration)
    - (IF paused /\ _pause_start > 0 THEN now - _pause_start ELSE 0)

\* C36: the cursor of a transcript processed while a pause is open is within
\* the allowance of the rate limiter computed on the elapsed time without the
\* time since the pause began: the allowance does not grow during a pause.
C36_OpenPauseNotCounted ==
  [][(processed_step /\ paused) =>
       current_index' <= max_allowed_of(elapsed_unpaused, MAX_WPS_x10)]_vars

\* C36 (auxiliary): what the code does: the allowance of a transcript
\* processed while a pause is open counts the time since the pause began.
C36_OpenPauseCounted ==
  [][(processed_step /\ paused) =>
       current_index' = Min(last'.wanted, allowed_now)]_vars

\* C37: after each resume, whatever pause and resume frames came before (a
\* pause while paused, a resume while not paused), _paused_duration is the
\* total time for which the paused flag was true.
C37_PausedDurationIsFlagTime ==
  frame.type = "resume" => _paused_duration = pause_log.total

\* C37 (auxiliary): what the code accumulates: the time the flag was true
\* less the time between a pause and a further pause received while paused.
C37_LastPauseOnly ==
  frame.type = "resume" =>
    _paused_duration = pause_log.total - pause_log.overwritten

\* C37 (auxiliary, a state that is reached): after a pause that lasted and no
\* pause while paused, a resume has come and the accumulated duration is the
\* time the flag was true.
C37_PausesApart ==
  /\ frame.type = "resume" /\ ~paused
  /\ pause_log.total > 0 /\ pause_log.overwritten = 0
  /\ _paused_duration = pause_log.total
  /\ _pause_start = 0

\* the maximum word_index of the persisted events
max_stored_index ==
  CHOOSE m \in {stored[i].word_index : i \in 1..Len(stored)} :
    \A i \in 1..Len(stored) : stored[i].word_index <= m

\* C38: the score finish_attempt computes for an attempt whose persisted
\* events have the maximum word_index m has words_reached = min(m + 1,
\* total_words), and its completion subscore is 80 times that fraction of the
\* story (in tenths, rounded).
C38_ScoreReflectsProgress ==
  (scoring.returned /\ stored # <<>>) =>
    LET reached == Min(max_stored_index + 1, Len(story_words))
    IN /\ scoring.score.words_reached = reached
       /\ scoring.score.completion = round_half_even(800 * reached, Len(story_words))

\* C38 (auxiliary): what the code computes: every dict is without a
\* word_index, so words_reached is 1 for any attempt with events.
C38_AlwaysOneWord ==
  (scoring.returned /\ stored # <<>>) =>
    /\ scoring.score.words_reached = 1
    /\ scoring.score.completion = round_half_even(800, Len(story_words))

\* finish_attempt is called again on the newest attempt, already finished,
\* with no attempt scored and no level posted since its first finish: the
\* score it stores again is the same and evaluate_progression is called again
finish_again_step ==
  /\ evaluation_step
  /\ progression.returned
  /\ attempts' = attempts /\ attempts # <<>>

\* C39: finishing an attempt again, with no new attempt scored in between,
\* leaves current_level as it was after the first finish.
C39_FinishIdempotent ==
  [][finish_again_step => level_state' = level_state]_vars

\* C39 (auxiliary): finishing again does to the level what the first finish
\* did when the level is not at an end of the range: a promotion is followed
\* by a promotion, a demotion by a demotion.
C39_SameDecisionAgain ==
  [][(finish_again_step /\ level_state.current_level \in 2..(max_level - 1)) =>
       progression'.action = progression.action]_vars

\* C40: in the events one call returns, word_index never decreases, every
\* word_index is at least the input cursor and less than the length of the
\* target, every expected word is the target word at its word_index, and no
\* index has two events that are not mismatches (correct, fuzzy or skip).
C40_EventListShape ==
  call.returned =>
    /\ \A i \in 1..Len(call.events) :
         /\ call.events[i].word_index >= call.current_index
         /\ call.events[i].word_index < Len(call.story_words)
         /\ call.events[i].expected = call.story_words[call.events[i].word_index + 1]
         /\ i > 1 => call.events[i - 1].word_index <= call.events[i].word_index
    /\ \A i \in 1..Len(call.events) : \A j \in 1..Len(call.events) :
         (/\ i # j
          /\ call.events[i].word_index = call.events[j].word_index
          /\ call.events[i].match # "mismatch") => call.events[j].match = "mismatch"

\* C40 witness: "a big dog ran to the cat lion" from the cursor 1: "a" is a
\* mismatch at index 1, "big" is matched at the same index, and the events go
\* on to later indices.
C40_Witness ==
  /\ call.returned
  /\ call.story_words = s_long
  /\ call.transcript_text = t_jump
  /\ call.current_index = 1
  /\ Len(call.events) > 2
  /\ call.events[1].match = "mismatch" /\ call.events[1].word_index = 1
  /\ call.events[2].match = "correct" /\ call.events[2].word_index = 1
  /\ call.events[Len(call.events)].word_index > 1

====
